---- MODULE Spec2Model ----
(***************************************************************************)
(* A model of avast/apkparser: the lenient ZIP reader (zipreader.go), the  *)
(* binary XML decoder (ParseXml and its chunk sub-parsers), the string     *)
(* pool (stringtable.go) and the APK facade (apkparser.go).                *)
(*                                                                         *)
(* Bytes are naturals 0..255 and Go strings are sequences of bytes.  A     *)
(* uint32 is a pair <<hi, lo>> of 16-bit halves, so that arithmetic wraps  *)
(* modulo 2^32 exactly as in Go.  An error is a record [kind, id, cause];  *)
(* Nil is Go's nil error.                                                  *)
(***************************************************************************)
EXTENDS Integers, Sequences, FiniteSets, TLC

\* ------------------------------------------------------------------ basics

Min(a, b) == IF a <= b THEN a ELSE b

Max(a, b) == IF a >= b THEN a ELSE b

Take(s, n) == SubSeq(s, 1, Min(Max(n, 0), Len(s)))

Drop(s, n) == SubSeq(s, Min(Max(n, 0), Len(s)) + 1, Len(s))

HasPrefix(s, p) == Len(s) >= Len(p) /\ SubSeq(s, 1, Len(p)) = p

Half == 256 * 256

\* Larger than any input of the model: stands for every int64 above 2^30.
Huge == 16384 * Half

U32(n) == <<n \div Half, n % Half>>

MaxUint32 == <<Half - 1, Half - 1>>

U32Small(u) == u[1] < 16384

U32Val(u) == u[1] * Half + u[2]

U32Add(a, b) ==
  LET lo == a[2] + b[2]
  IN  <<(a[1] + b[1] + (lo \div Half)) % Half, lo % Half>>

\* A difference that is 0 where a is less than b
U32SubSaturating(a, b) ==
  IF a[1] < b[1] \/ (a[1] = b[1] /\ a[2] < b[2]) THEN <<0, 0>>
  ELSE <<(a[1] - b[1] - (IF a[2] < b[2] THEN 1 ELSE 0)) % Half,
         (a[2] - b[2] + Half) % Half>>

U32Sub(a, b) ==
  LET lo == a[2] - b[2]
      borrow == IF lo < 0 THEN 1 ELSE 0
  IN  <<(a[1] - b[1] - borrow + Half) % Half, (lo + Half) % Half>>

U32Lt(a, b) == a[1] < b[1] \/ (a[1] = b[1] /\ a[2] < b[2])

\* A difference that is 0 where int64(u) - k is negative
I64MinusClamped(u, k) ==
  IF U32Small(u) THEN Max(U32Val(u) - k, 0) ELSE Huge + ((u[2] + 4 * k - k) % 4)

\* int64(u) - k for a small k >= 0, capped at Huge (the residue mod 4 is kept).
I64Minus(u, k) ==
  IF U32Small(u) THEN U32Val(u) - k ELSE Huge + ((u[2] + 4 * k - k) % 4)

\* little-endian reads at a zero-based offset o of a byte sequence s
LE16(s, o) == s[o + 1] + 256 * s[o + 2]

LE32(s, o) == <<LE16(s, o + 2), LE16(s, o)>>

Bytes16(n) == <<n % 256, n \div 256>>

Bytes32(u) == Bytes16(u[2]) \o Bytes16(u[1])

Err(kind, id, cause) == [kind |-> kind, id |-> id, cause |-> cause]

Nil == Err("nil", 0, "")

EOF == Err("EOF", 0, "")

ErrUnexpectedEOF == Err("ErrUnexpectedEOF", 0, "")

ErrPlainTextManifest == Err("ErrPlainTextManifest", 0, "")

\* io.ReadFull of k > 0 bytes at offset o of the bytes a reader can deliver
ReadFullErr(a, o, k) ==
  IF o + k <= Len(a) THEN Nil
  ELSE IF o >= Len(a) THEN EOF
  ELSE ErrUnexpectedEOF

\* ------------------------------------------------------------- common.go

chunkStringTable == 1

chunkResourceIds == 384

chunkMaskXml == 256

chunkXmlNsStart == 256

chunkXmlNsEnd == 257

chunkXmlTagStart == 258

chunkXmlTagEnd == 259

chunkXmlText == 260

chunkHeaderSize == 8

\* parseChunkHeader on the bytes b the reader still holds: three binary.Read
\* calls of 2, 2 and 4 bytes; the first one that falls short is the error.
parseChunkHeader(b) ==
  LET e1 == ReadFullErr(b, 0, 2)
      e2 == ReadFullErr(b, 2, 2)
      e3 == ReadFullErr(b, 4, 4)
      err == IF e1 # Nil THEN e1 ELSE IF e2 # Nil THEN e2 ELSE e3
  IN  IF err # Nil
      THEN [err |-> err, id |-> 0, headerLen |-> 0, len |-> U32(0)]
      ELSE [err |-> Nil, id |-> LE16(b, 0), headerLen |-> LE16(b, 2),
            len |-> LE32(b, 4)]

\* --------------------------------------------------------- stringtable.go

\* The zero value of stringTable: what binxmlParseInfo holds before a
\* STRING_TABLE chunk was parsed.
EmptyStringTable ==
  [isUtf8 |-> FALSE, stringOffsets |-> <<>>, data |-> <<>>, parsed |-> FALSE]

StErr(msg) == [err |-> Err(msg, 0, ""), st |-> EmptyStringTable, n |-> 0]

TooManyStrings == U32(2 * 1024 * 1024)

\* A test that lets every count be reduced
CanReduceAlways(fix, cnt) == TRUE

\* uint32((-1*remainder)/4) < stringCnt: the reduction leaves a string
CanReduce(fix, cnt) == fix < cnt

\* parseStringTable on a LimitedReader that can deliver the bytes a and whose
\* limit is N (Len(a) < N when the underlying reader ends first).
parseStringTable(a, N) ==
  IF ReadFullErr(a, 0, 4) # Nil THEN StErr("error reading stringCnt")
  ELSE IF ReadFullErr(a, 4, 4) # Nil THEN StErr("error reading styleCnt")
  ELSE IF ReadFullErr(a, 8, 4) # Nil THEN StErr("error reading flags")
  ELSE
    LET stringCnt0 == LE32(a, 0)
        flags == LE32(a, 8)
        isUtf8 == (flags[2] \div 256) % 2 = 1
        \* flags &^ stringFlagUtf8 &^ stringFlagSorted
        rest == <<flags[1],
                  flags[2] - (IF isUtf8 THEN 256 ELSE 0) - (flags[2] % 2)>>
    IN
    IF rest # U32(0) THEN StErr("Unknown string flag")
    ELSE IF ReadFullErr(a, 12, 4) # Nil THEN StErr("error reading stringOffset")
    ELSE IF ReadFullErr(a, 16, 4) # Nil THEN StErr("error reading styleOffset")
    ELSE IF ~U32Lt(stringCnt0, TooManyStrings) THEN StErr("Too many strings")
    ELSE
      LET cnt0 == U32Val(stringCnt0)
          remainder == I64Minus(LE32(a, 12), 7 * 4) - 4 * cnt0
          fix == (0 - remainder) \div 4
          badOffset ==
            remainder < 0 /\ ~(remainder % 4 = 0 /\ CanReduce(fix, cnt0))
          stringCnt == IF remainder < 0 /\ ~badOffset THEN cnt0 - fix ELSE cnt0
          o1 == 20 + 4 * stringCnt
          o2 == o1 + (IF remainder > 0 THEN remainder ELSE 0)
      IN
      IF badOffset THEN StErr("Wrong string offset")
      ELSE IF stringCnt > 0 /\ ReadFullErr(a, 20, 4 * stringCnt) # Nil
        THEN StErr("Failed to read string offsets data")
      ELSE IF remainder > 0 /\ ReadFullErr(a, o1, remainder) # Nil
        THEN StErr("error reading styleArray")
      ELSE IF N - o2 > 0 /\ ReadFullErr(a, o2, N - o2) # Nil
        THEN StErr("Failed to read string table data")
      ELSE [err |-> Nil,
            st |-> [isUtf8 |-> isUtf8,
                    stringOffsets |-> SubSeq(a, 21, o1),
                    data |-> SubSeq(a, o2 + 1, N),
                    parsed |-> TRUE],
            n |-> N]

\* U+FFFE in UTF-8
RuneFFFE == <<239, 191, 190>>

RECURSIVE StripTrailingZeros(_)
StripTrailingZeros(s) ==
  IF Len(s) # 0 /\ s[Len(s)] = 0
  THEN StripTrailingZeros(SubSeq(s, 1, Len(s) - 1))
  ELSE s

\* string(rune) for a rune of the basic plane; a surrogate half is
\* utf8.RuneError (U+FFFD), as utf16.Decode yields for an unpaired one.
EncodeRune(r) ==
  IF r < 128 THEN <<r>>
  ELSE IF r < 2048 THEN <<192 + (r \div 64), 128 + (r % 64)>>
  ELSE IF r >= 55296 /\ r < 57344 THEN <<239, 191, 189>>
  ELSE <<224 + (r \div 4096), 128 + ((r \div 64) % 64), 128 + (r % 64)>>

RECURSIVE EncodeRunes(_)
EncodeRunes(rs) ==
  IF rs = <<>> THEN <<>> ELSE EncodeRune(rs[1]) \o EncodeRunes(Tail(rs))

\* The strings.Map of get: NUL and utf8.RuneError become U+FFFE.  Strings of
\* the model hold ASCII, the three-byte forms EncodeRune writes, or stray
\* bytes >= 128, each of which is one invalid rune.
RECURSIVE MapRunes(_)
MapRunes(s) ==
  IF s = <<>> THEN <<>>
  ELSE IF s[1] = 0 THEN RuneFFFE \o MapRunes(Tail(s))
  ELSE IF s[1] < 128 THEN <<s[1]>> \o MapRunes(Tail(s))
  ELSE IF s[1] >= 194 /\ s[1] < 224 /\ Len(s) >= 2 /\ s[2] \div 64 = 2
    THEN SubSeq(s, 1, 2) \o MapRunes(Drop(s, 2))
  ELSE IF s[1] >= 225 /\ s[1] < 240 /\ Len(s) >= 3 /\ s[2] \div 64 = 2
          /\ s[3] \div 64 = 2
    THEN (IF SubSeq(s, 1, 3) = <<239, 191, 189>> THEN RuneFFFE
          ELSE SubSeq(s, 1, 3)) \o MapRunes(Drop(s, 3))
  ELSE RuneFFFE \o MapRunes(Tail(s))

StrErr(msg) == [err |-> Err(msg, 0, ""), str |-> <<>>]

\* parseString16 on the bytes d of the pool's data from the string's offset
parseString16(d) ==
  IF ReadFullErr(d, 0, 2) # Nil THEN StrErr("error reading string char count")
  ELSE
    LET high == LE16(d, 0)
        long == high >= 32768
    IN
    IF long /\ ReadFullErr(d, 2, 2) # Nil
      THEN StrErr("error reading string char count")
    ELSE
      LET o == IF long THEN 4 ELSE 2
          \* (high & 0x7FFF) << 16 | low, capped: no input holds 2^16 units
          strCharacters ==
            IF long THEN (IF high - 32768 > 0 THEN Huge ELSE LE16(d, 2))
            ELSE high
      IN
      IF strCharacters > 0 /\ ReadFullErr(d, o, 2 * strCharacters) # Nil
        THEN StrErr("error reading string")
      ELSE
        LET units == [k \in 1..strCharacters |-> LE16(d, o + 2 * (k - 1))]
        IN  [err |-> Nil, str |-> EncodeRunes(StripTrailingZeros(units))]

\* A length that is always read as two bytes
parseString8LenWide(d, o) ==
  IF ReadFullErr(d, o, 2) # Nil THEN [err |-> TRUE, v |-> 0, n |-> 0]
  ELSE [err |-> FALSE, v |-> (d[o + 1] % 128) * 256 + d[o + 2], n |-> 2]

\* parseString8Len at offset o: [err, v, n] with n the bytes it read
parseString8Len(d, o) ==
  IF ReadFullErr(d, o, 1) # Nil THEN [err |-> TRUE, v |-> 0, n |-> 0]
  ELSE IF d[o + 1] >= 128
    THEN IF ReadFullErr(d, o + 1, 1) # Nil THEN [err |-> TRUE, v |-> 0, n |-> 0]
         ELSE [err |-> FALSE, v |-> (d[o + 1] - 128) * 256 + d[o + 2], n |-> 2]
  ELSE [err |-> FALSE, v |-> d[o + 1], n |-> 1]

parseString8(d) ==
  LET l16 == parseString8Len(d, 0)
      l8 == parseString8Len(d, l16.n)
      o == l16.n + l8.n
  IN
  IF l16.err \/ l8.err THEN StrErr("error reading string char count")
  ELSE IF l8.v > 0 /\ ReadFullErr(d, o, l8.v) # Nil
    THEN StrErr("error reading string")
  ELSE [err |-> Nil, str |-> StripTrailingZeros(SubSeq(d, o + 1, o + l8.v))]

\* A get that returns the string as it was decoded
NotMapped(r) == r

\* The end of stringTable.get, r being what parseString8 or parseString16 gave
Mapped(r) == IF r.err # Nil THEN r ELSE [err |-> Nil, str |-> MapRunes(r.str)]

\* stringTable.get(idx), idx a uint32
StringTableGet(t, idx) ==
  IF idx = MaxUint32 THEN [err |-> Nil, str |-> <<>>]
  ELSE IF ~U32Lt(idx, U32(Len(t.stringOffsets) \div 4))
    THEN StrErr("String with idx not found")
  ELSE
    LET offset == LE32(t.stringOffsets, 4 * U32Val(idx))
    IN
    IF ~U32Lt(offset, U32(Len(t.data)))
      THEN StrErr("String offset is out of bounds")
    ELSE
      LET d == Drop(t.data, U32Val(offset))
      IN  Mapped(IF t.isUtf8 THEN parseString8(d) ELSE parseString16(d))

\* t.cache[idx] = res of get, r being what the decoding gave: a write to the
\* nil map of a stringTable that parseStringTable has not made is a panic
CacheStore(t, cache, idx, r) ==
  IF r.err # Nil THEN [r |-> r, cache |-> cache, panic |-> FALSE]
  ELSE [r |-> r, cache |-> cache \cup {<<idx, r.str>>}, panic |-> ~t.parsed]

\* stringTable.get(idx) with its cache, a set of <<idx, string>>:
\* [r, cache, panic], r what get returns
CachedGet(t, cache, idx) ==
  IF idx = MaxUint32 \/ ~U32Lt(idx, U32(Len(t.stringOffsets) \div 4))
    THEN [r |-> StringTableGet(t, idx), cache |-> cache, panic |-> FALSE]
  ELSE IF \E c \in cache : c[1] = idx
    THEN [r |-> [err |-> Nil, str |-> (CHOOSE c \in cache : c[1] = idx)[2]],
          cache |-> cache, panic |-> FALSE]
  ELSE CacheStore(t, cache, idx, StringTableGet(t, idx))

\* ------------------------------------------------- the binary XML decoder

AttrTypeReference == 1

AttrTypeString == 3

AttrTypeFloat == 4

AttrTypeIntHex == 17

AttrTypeIntBool == 18

StrManifest == <<109, 97, 110, 105, 102, 101, 115, 116>>

StrPackage == <<112, 97, 99, 107, 97, 103, 101>>

StrPlatformBuildVersion ==
  <<112, 108, 97, 116, 102, 111, 114, 109, 66, 117, 105, 108, 100, 86, 101,
    114, 115, 105, 111, 110>>

StrAndroidNs ==
  <<104, 116, 116, 112, 58, 47, 47, 115, 99, 104, 101, 109, 97, 115, 46, 97,
    110, 100, 114, 111, 105, 100, 46, 99, 111, 109, 47, 97, 112, 107, 47, 114,
    101, 115, 47, 97, 110, 100, 114, 111, 105, 100>>

StrIcon == <<105, 99, 111, 110>>

StrRoundIcon == <<114, 111, 117, 110, 100, 73, 99, 111, 110>>

StrXmlDecl == <<60, 63, 120, 109, 108, 32>>

StrManif == <<60, 109, 97, 110, 105, 102>>

\* The static android.R.attr table (not among the sources): the ids the
\* specification names, and label and icon.
getAttributteName(id) ==
  IF id = <<257, 1>> THEN <<108, 97, 98, 101, 108>>
  ELSE IF id = <<257, 2>> THEN StrIcon
  ELSE IF id = <<257, 3>> THEN <<110, 97, 109, 101>>
  ELSE IF id = <<257, 539>>
    THEN <<118, 101, 114, 115, 105, 111, 110, 67, 111, 100, 101>>
  ELSE <<>>

\* A resource table is a sequence of [id, str, err]: the string the entry of
\* id resolves to, or that its value cannot be formatted.  <<>> is Go's nil.
NoResources == <<>>

ResourceString(res, data) ==
  LET hits == {k \in 1..Len(res) : res[k].id = data}
  IN  IF hits = {} THEN [err |-> TRUE, str |-> <<>>]
      ELSE LET k == CHOOSE m \in hits : \A o \in hits : m <= o
           IN  [err |-> res[k].err, str |-> IF res[k].err THEN <<>> ELSE res[k].str]

HexDigit(d) == IF d < 10 THEN 48 + d ELSE 87 + d

RECURSIVE HexNat(_)
HexNat(n) ==
  IF n < 16 THEN <<HexDigit(n)>> ELSE HexNat(n \div 16) \o <<HexDigit(n % 16)>>

Hex4(n) ==
  <<HexDigit(n \div 4096), HexDigit((n \div 256) % 16),
    HexDigit((n \div 16) % 16), HexDigit(n % 16)>>

\* fmt's %x of a uint32
FormatHex(u) == IF u[1] = 0 THEN HexNat(u[2]) ELSE HexNat(u[1]) \o Hex4(u[2])

RECURSIVE DecNonPos(_)
DecNonPos(n) ==
  LET d == (10 - (n % 10)) % 10
      q == (n + d) \div 10
  IN  IF q = 0 THEN <<48 + d>> ELSE DecNonPos(q) \o <<48 + d>>

\* strconv.FormatInt(int64(int32(data)), 10)
FormatInt32(u) ==
  IF u[1] < 32768 THEN DecNonPos(0 - U32Val(u))
  ELSE <<45>> \o DecNonPos((u[1] - Half) * Half + u[2])

\* fmt's %g of the float32 with the bits of data is not computed: the value
\* is kept as the letter f and the bits in hex.
FormatFloat(u) == <<102>> \o FormatHex(u)

Token(t, local, space, attr) ==
  [t |-> t, local |-> local, space |-> space, attr |-> attr]

\* The sink is a collector: EncodeToken appends and returns nil.
EncodeToken(x, tok) == [x EXCEPT !.toks = Append(@, tok)]

SubErr(x, msg) == [err |-> Err(msg, 0, ""), n |-> 0, x |-> x]

SubOk(x, n) == [err |-> Nil, n |-> n, x |-> x]

RECURSIVE ReadResourceIds(_, _, _)
ReadResourceIds(a, k, count) ==
  IF k = count THEN <<>>
  ELSE <<LE32(a, 4 * k)>> \o ReadResourceIds(a, k + 1, count)

\* A parseResourceIds that takes a chunk of any size
parseResourceIdsAnySize(x, a, N) ==
  IF N < 0 THEN SubErr(x, "EOF")
  ELSE IF Len(a) < N
    THEN SubErr(x, ReadFullErr(a, 4 * (Len(a) \div 4), 4).kind)
  ELSE SubOk([x EXCEPT !.resourceIds = @ \o ReadResourceIds(a, 0, N \div 4)],
             4 * (N \div 4))

\* parseResourceIds: a the bytes the LimitedReader can deliver, N its limit
parseResourceIds(x, a, N) ==
  IF N % 4 # 0 THEN SubErr(x, "Invalid chunk size!")
  ELSE IF N < 0 THEN SubErr(x, "EOF")
  ELSE IF Len(a) < N
    THEN SubErr(x, ReadFullErr(a, 4 * (Len(a) \div 4), 4).kind)
  ELSE SubOk([x EXCEPT !.resourceIds = @ \o ReadResourceIds(a, 0, N \div 4)], N)

\* parseNsStart once x.strings.get has given the prefix; uri is what it
\* gives for the second index
NsStartNamed(x, a, prefix, uri) ==
  IF prefix.err # Nil THEN SubErr(x, prefix.err.kind)
  ELSE IF ReadFullErr(a, 4, 4) # Nil THEN SubErr(x, ReadFullErr(a, 4, 4).kind)
  ELSE IF uri.err # Nil THEN SubErr(x, uri.err.kind)
  ELSE SubOk(x, 8)

parseNsStart(x, a) ==
  IF ReadFullErr(a, 0, 4) # Nil THEN SubErr(x, ReadFullErr(a, 0, 4).kind)
  ELSE NsStartNamed(x, a, StringTableGet(x.strings, LE32(a, 0)),
                    StringTableGet(x.strings, LE32(a, 4)))

parseNsEnd(x, a) ==
  IF ReadFullErr(a, 0, 8) # Nil THEN SubErr(x, "error skipping") ELSE SubOk(x, 8)

\* An EndElement that carries the namespace as its name
TagEndSwapped(x, namespace, name) ==
  IF namespace.err # Nil THEN SubErr(x, "error decoding namespace")
  ELSE IF name.err # Nil THEN SubErr(x, "error decoding name")
  ELSE SubOk(EncodeToken(x, Token("EndElement", namespace.str, name.str,
                                  <<>>)), 8)

\* parseTagEnd once x.strings.get has given namespace and name
TagEndNamed(x, namespace, name) ==
  IF namespace.err # Nil THEN SubErr(x, "error decoding namespace")
  ELSE IF name.err # Nil THEN SubErr(x, "error decoding name")
  ELSE SubOk(EncodeToken(x, Token("EndElement", name.str, namespace.str,
                                  <<>>)), 8)

parseTagEnd(x, a) ==
  IF ReadFullErr(a, 0, 4) # Nil THEN SubErr(x, "error reading namespace idx")
  ELSE IF ReadFullErr(a, 4, 4) # Nil THEN SubErr(x, "error reading name idx")
  ELSE TagEndNamed(x, StringTableGet(x.strings, LE32(a, 0)),
                   StringTableGet(x.strings, LE32(a, 4)))

\* parseText once x.strings.get has given text
TextNamed(x, a, text) ==
  IF text.err # Nil THEN SubErr(x, "error decoding idx")
  ELSE IF ReadFullErr(a, 4, 8) # Nil THEN SubErr(x, "error skipping")
  ELSE SubOk(EncodeToken(x, Token("CharData", text.str, <<>>, <<>>)), 12)

parseText(x, a) ==
  IF ReadFullErr(a, 0, 4) # Nil THEN SubErr(x, "error reading idx")
  ELSE TextNamed(x, a, StringTableGet(x.strings, LE32(a, 0)))

\* A test that reads the name from the string pool for every attribute
UseStringsAlways(byId, name) == TRUE

\* attrName == "" || name == "manifest": the attribute's name is read from
\* the string pool
UseStrings(byId, name) == byId = <<>> \/ name = StrManifest

\* A test that keeps no name of the string pool
KeepsPoolNameNever(str) == FALSE

\* The names of the string pool that an attribute named by its resource id
\* keeps: package and platformBuildVersion*
KeepsPoolName(str) ==
  str = StrPackage \/ HasPrefix(str, StrPlatformBuildVersion)

\* One attribute of parseTagStart, from the 20 bytes at offset o; name is the
\* element's name; got, ns and str are what x.strings.get gives for the
\* attribute's NameIdx, NamespaceId and RawValueIdx.  [err, attr]
ResolveAttr(x, a, o, name, got, ns, str) ==
  LET NameIdx == LE32(a, o + 4)
      Type == a[o + 16]
      Data == LE32(a, o + 16)
      byId == IF U32Lt(NameIdx, U32(Len(x.resourceIds)))
              THEN getAttributteName(x.resourceIds[U32Val(NameIdx) + 1])
              ELSE <<>>
      useStrings == UseStrings(byId, name)
      fromStrings ==
        IF ~useStrings \/ got.err # Nil THEN <<>>
        ELSE IF byId # <<>> /\ ~KeepsPoolName(got.str) THEN <<>>
        ELSE got.str
      attrName == IF fromStrings # <<>> THEN fromStrings ELSE byId
      attrNameSpace ==
        IF fromStrings = <<>> /\ ns.str = <<>> THEN StrAndroidNs ELSE ns.str
      ref == IF x.res = NoResources
             THEN [err |-> TRUE, str |-> <<>>]
             ELSE ResourceString(x.res, Data)
      val == IF Type = AttrTypeString THEN str.str
             ELSE IF Type = AttrTypeIntBool
               THEN (IF Data # U32(0) THEN <<116, 114, 117, 101>>
                     ELSE <<102, 97, 108, 115, 101>>)
             ELSE IF Type = AttrTypeIntHex THEN <<48, 120>> \o FormatHex(Data)
             ELSE IF Type = AttrTypeFloat THEN FormatFloat(Data)
             ELSE IF Type = AttrTypeReference
               THEN (IF ref.err /\ ref.str = <<>> THEN <<64>> \o FormatHex(Data)
                     ELSE ref.str)
             ELSE FormatInt32(Data)
      bad == [local |-> <<>>, space |-> <<>>, value |-> <<>>]
  IN
  IF useStrings /\ got.err # Nil /\ byId = <<>>
    THEN [err |-> "error decoding attrNameIdx", attr |-> bad]
  ELSE IF ns.err # Nil THEN [err |-> "error decoding attrNamespaceIdx", attr |-> bad]
  ELSE IF Type = AttrTypeString /\ str.err # Nil
    THEN [err |-> "error decoding attrStringIdx", attr |-> bad]
  ELSE [err |-> "",
        attr |-> [local |-> attrName, space |-> attrNameSpace, value |-> val]]

ParseAttr(x, a, o, name) ==
  ResolveAttr(x, a, o, name, StringTableGet(x.strings, LE32(a, o + 4)),
              StringTableGet(x.strings, LE32(a, o)),
              StringTableGet(x.strings, LE32(a, o + 8)))

\* An append that puts the attributes read later first
AppendAttrReversed(one, o, more) ==
  IF one.err # "" THEN [err |-> one.err, attrs |-> <<>>, n |-> o]
  ELSE [more EXCEPT !.attrs = @ \o <<one.attr>>]

\* tok.Attr = append(tok.Attr, resultAttr), or the attribute's error: one is
\* what the attribute at offset o gave, more what the loop gives after it
AppendAttr(one, o, more) ==
  IF one.err # "" THEN [err |-> one.err, attrs |-> <<>>, n |-> o]
  ELSE [more EXCEPT !.attrs = <<one.attr>> \o @]

\* The attribute loop of parseTagStart from offset o: [err, attrs, n].  The
\* error of the skip to the next attribute is dropped: it consumes what
\* there is.
RECURSIVE ParseAttrs(_, _, _, _, _, _)
ParseAttrs(x, a, o, name, attrSize, left) ==
  IF left = 0 THEN [err |-> "", attrs |-> <<>>, n |-> o]
  ELSE IF ReadFullErr(a, o, 20) # Nil
    THEN [err |-> "error reading attrData", attrs |-> <<>>, n |-> o]
  ELSE AppendAttr(ParseAttr(x, a, o, name), o,
                  ParseAttrs(x, a, Min(o + Max(attrSize, 20), Len(a)), name,
                             attrSize, left - 1))

\* parseTagStart once its attribute loop has given attrs
TagStartEncode(x, namespace, name, attrs) ==
  IF attrs.err # "" THEN SubErr(x, attrs.err)
  ELSE SubOk(EncodeToken(x, Token("StartElement", name.str, namespace.str,
                                  attrs.attrs)), attrs.n)

\* parseTagStart once x.strings.get has given namespace and name.  The
\* io.CopyN of idIndex, classIndex and styleIndex, its error dropped, has
\* left the reader at offset 20 or at its end.
TagStartNamed(x, a, namespace, name) ==
  IF namespace.err # Nil THEN SubErr(x, "error decoding namespace")
  ELSE IF name.err # Nil THEN SubErr(x, "error decoding name")
  ELSE TagStartEncode(x, namespace, name,
                      ParseAttrs(x, a, Min(20, Len(a)), name.str,
                                 LE16(a, 10), LE16(a, 12)))

parseTagStart(x, a) ==
  IF ReadFullErr(a, 0, 4) # Nil THEN SubErr(x, "error reading namespace idx")
  ELSE IF ReadFullErr(a, 4, 4) # Nil THEN SubErr(x, "error reading name idx")
  ELSE IF ReadFullErr(a, 8, 2) # Nil THEN SubErr(x, "error reading attrStart")
  ELSE IF ReadFullErr(a, 10, 2) # Nil THEN SubErr(x, "error reading attrSize")
  ELSE IF ReadFullErr(a, 12, 2) # Nil THEN SubErr(x, "error reading classAttr")
  ELSE TagStartNamed(x, a, StringTableGet(x.strings, LE32(a, 0)),
                     StringTableGet(x.strings, LE32(a, 4)))

\* The switch of ParseXml's loop on one chunk: id its id, a the bytes its
\* LimitedReader can deliver, N the reader's limit.  [err, n, x], n the bytes
\* read from the reader.
ParseChunk(x, id, a, N) ==
  IF id = chunkStringTable
    THEN LET r == parseStringTable(a, N)
         IN  [err |-> r.err, n |-> r.n, x |-> [x EXCEPT !.strings = r.st]]
  ELSE IF id = chunkResourceIds THEN parseResourceIds(x, a, N)
  ELSE IF (id \div chunkMaskXml) % 2 = 0 THEN SubErr(x, "Unknown chunk id")
  ELSE IF ReadFullErr(a, 0, 2 * 4) # Nil THEN SubErr(x, "EOF")
  ELSE
    LET body == Drop(a, 8)
        r == IF id = chunkXmlNsStart THEN parseNsStart(x, body)
             ELSE IF id = chunkXmlNsEnd THEN parseNsEnd(x, body)
             ELSE IF id = chunkXmlTagStart THEN parseTagStart(x, body)
             ELSE IF id = chunkXmlTagEnd THEN parseTagEnd(x, body)
             ELSE IF id = chunkXmlText THEN parseText(x, body)
             ELSE SubErr(x, "Unknown chunk id")
    IN  [r EXCEPT !.n = @ + 8]

XmlResult(err, x, flushed) ==
  [err |-> err, toks |-> x.toks, flushed |-> flushed, n |-> x.n]

\* The loop of ParseXml: b the bytes the reader still holds, i the loop
\* counter (a uint32), x the parse state with the bytes read so far in x.n.
RECURSIVE ChunkLoop(_, _, _, _)

\* The end of one round of the loop: rest the bytes after the chunk's header,
\* i the counter of the next round, N the limit the chunk's reader had, r what
\* the switch on the chunk's id gave
ChunkDone(rest, totalLen, i, id, N, r) ==
  IF r.err # Nil
    THEN XmlResult(Err("Chunk", id, r.err.kind),
                   [r.x EXCEPT !.n = @ + chunkHeaderSize], TRUE)
  ELSE IF N - r.n # 0
    THEN XmlResult(Err("Chunk", id, "was not fully read"),
                   [r.x EXCEPT !.n = @ + chunkHeaderSize + r.n], TRUE)
  ELSE ChunkLoop(Drop(rest, r.n), totalLen, i,
                 [r.x EXCEPT !.n = @ + chunkHeaderSize + r.n])

ChunkLoop(b, totalLen, i, x) ==
  IF ~U32Lt(i, totalLen) THEN XmlResult(Nil, x, TRUE)
  ELSE
    LET h == parseChunkHeader(b)
        N == I64Minus(h.len, 2 * 4)
        rest == Drop(b, chunkHeaderSize)
    IN
    IF h.err # Nil
      THEN XmlResult(Err("Error parsing header", 0, h.err.kind),
                     [x EXCEPT !.n = @ + Len(b)], TRUE)
    ELSE ChunkDone(rest, totalLen, U32Add(i, h.len), h.id, N,
                   ParseChunk(x, h.id, Take(rest, N), N))

\* A detection that knows the XML declaration only
IsPlainTextDeclOnly(buf) == HasPrefix(buf, StrXmlDecl)

\* strings.HasPrefix(s, "<?xml ") || strings.HasPrefix(s, "<manif")
IsPlainText(buf) == HasPrefix(buf, StrXmlDecl) \/ HasPrefix(buf, StrManif)

\* ParseXml(r, enc, resources): b the bytes r delivers, toks what the sink
\* already holds.  [err, toks, flushed, n]: the error, the sink afterwards,
\* whether the sink was flushed, and the bytes read from r.
ParseXml(b, toks, resources) ==
  LET h == parseChunkHeader(b)
      x == [strings |-> EmptyStringTable, resourceIds |-> <<>>, toks |-> toks,
            res |-> resources, n |-> 0]
      buf == Bytes16(h.id) \o Bytes16(h.headerLen) \o Bytes32(h.len)
  IN
  IF h.err # Nil THEN XmlResult(h.err, [x EXCEPT !.n = Len(b)], FALSE)
  ELSE IF h.id % 256 = 60 /\ IsPlainText(buf)
    THEN XmlResult(ErrPlainTextManifest, [x EXCEPT !.n = chunkHeaderSize], FALSE)
  ELSE ChunkLoop(Drop(b, chunkHeaderSize), U32Sub(h.len, U32(chunkHeaderSize)),
                 U32(0), [x EXCEPT !.n = chunkHeaderSize])

\* ------------------------------------------------------------ zipreader.go

\* zip.Store and zip.Deflate of archive/zip
ZipStore == 0

ZipDeflate == 8

NameManifest ==
  <<65, 110, 100, 114, 111, 105, 100, 77, 97, 110, 105, 102, 101, 115, 116,
    46, 120, 109, 108>>

NameResources ==
  <<114, 101, 115, 111, 117, 114, 99, 101, 115, 46, 97, 114, 115, 99>>

\* path.Clean on the names of the model: a leading "./" goes, the empty
\* name becomes ".", every other name of the model is clean already.
RECURSIVE PathClean(_)
PathClean(name) ==
  IF name = <<>> THEN <<46>>
  ELSE IF Len(name) > 2 /\ SubSeq(name, 1, 2) = <<46, 47>>
    THEN PathClean(Drop(name, 2))
  ELSE name

\* What flate's reader delivers for the compressed bytes c: the data, then
\* end (EOF, or the error of a broken stream).  Streams of the model are made
\* of stored blocks (BTYPE 00): a header byte, LEN, NLEN, LEN bytes.
RECURSIVE Inflate(_)
Inflate(c) ==
  IF Len(c) < 5 THEN [data |-> <<>>, end |-> ErrUnexpectedEOF]
  ELSE
    LET len == LE16(c, 1)
        final == c[1] % 2 = 1
        more == Inflate(Drop(c, 5 + len))
    IN
    IF (c[1] \div 2) % 4 # 0 \/ LE16(c, 3) # 65535 - len
      THEN [data |-> <<>>, end |-> Err("flate: corrupt input", 0, "")]
    ELSE IF Len(c) < 5 + len
      THEN [data |-> Drop(c, 5), end |-> ErrUnexpectedEOF]
    ELSE IF final THEN [data |-> SubSeq(c, 6, 5 + len), end |-> EOF]
    ELSE [data |-> SubSeq(c, 6, 5 + len) \o more.data, end |-> more.end]

\* tryReadZip: archive/zip's reading of the central directory, which the
\* archive of the model carries as cd (cdOk: whether zip.NewReader accepts it).
tryReadZip(arch) ==
  IF arch.cdOk THEN [err |-> Nil, File |-> arch.cd]
  ELSE [err |-> Err("zip: not a valid zip file", 0, ""), File |-> <<>>]

toCmp == <<80, 75, 3, 4>>

\* binXmlParseInfo.getString of the binxml parser: [str, err, panic], panic
\* being the run-time panic of the index expression x.stringTable[idx] when
\* idx is not below len(x.stringTable)
getString(stringTable, idx) ==
  IF idx = MaxUint32
    THEN [str |-> <<>>, err |-> Nil, panic |-> FALSE]
  ELSE IF U32Lt(U32(Len(stringTable)), idx)
    THEN [str |-> <<>>, err |-> Err("String not found", 0, ""),
          panic |-> FALSE]
  ELSE IF U32Val(idx) < Len(stringTable)
    THEN [str |-> stringTable[U32Val(idx) + 1], err |-> Nil, panic |-> FALSE]
  ELSE [str |-> <<>>, err |-> Nil, panic |-> TRUE]

\* The ok of findNextFileHeader's loop after it has compared the byte at the
\* zero-based position j, the scan having begun at start: one more than
\* before when the byte is the next of the signature, else 0 (the byte is not
\* compared again with the signature's first).  Only a byte of the signature
\* makes the value depend on the bytes before it.
RECURSIVE ScanSignature(_, _, _)
ScanSignature(b, start, j) ==
  IF j < start \/ b[j + 1] \notin {toCmp[k] : k \in 1..Len(toCmp)} THEN 0
  ELSE LET ok == ScanSignature(b, start, j - 1) % Len(toCmp)
       IN  IF b[j + 1] = toCmp[ok + 1] THEN ok + 1 ELSE 0

\* findNextFileHeader with the reader at start: the offset of the first
\* position where ok reaches len(toCmp), less len(toCmp)-1, or -1
findNextFileHeader(b, start) ==
  LET found == {j \in start..(Len(b) - 1) :
                  ScanSignature(b, start, j) = Len(toCmp)}
  IN  IF found = {} THEN -1
      ELSE (CHOOSE j \in found : \A k \in found : j <= k) - (Len(toCmp) - 1)

NewZipReaderFile(zipEntry, curEntry) ==
  [zipEntry |-> zipEntry, entries |-> <<>>, curEntry |-> curEntry,
   internalReader |-> "nil", internalCloser |-> "nil", pos |-> 0]

\* The loop of OpenZipReader over zipinfo.File from its k-th entry: File maps
\* each cleaned name to its ZipReaderFile, whose zipEntry is the index (in the
\* central directory) of the first entry of that name.
RECURSIVE IndexCentralDirectory(_, _, _, _)
IndexCentralDirectory(cd, k, File, FilesOrdered) ==
  IF k > Len(cd) THEN [File |-> File, FilesOrdered |-> FilesOrdered]
  ELSE
    LET cl == PathClean(cd[k].Name)
    IN  IF cl \in DOMAIN File
        THEN IndexCentralDirectory(cd, k + 1, File, FilesOrdered)
        ELSE IndexCentralDirectory(cd, k + 1,
               [n \in DOMAIN File \cup {cl} |->
                  IF n = cl THEN NewZipReaderFile(k, 0) ELSE File[n]],
               Append(FilesOrdered, cl))

\* The zip.File the central-directory loop leaves at index k: an unknown
\* method becomes Store (and the compressed size the uncompressed one) for
\* the manifest and the resources, Deflate for every other name.
ZipEntryOf(arch, k) ==
  LET zf == arch.cd[k]
  IN  IF zf.Method = ZipStore \/ zf.Method = ZipDeflate THEN zf
      ELSE IF zf.Name = NameManifest \/ zf.Name = NameResources
        THEN [zf EXCEPT !.Method = ZipStore,
                        !.CompressedSize64 = zf.UncompressedSize64]
      ELSE [zf EXCEPT !.Method = ZipDeflate]

\* A sub-entry list with its entries in the order of their discovery
AddSubEntryLast(entries, sub) == Append(entries, sub)

\* zrf.entries = append([]zipReaderFileSubEntry{sub}, zrf.entries...)
AddSubEntry(entries, sub) == <<sub>> \o entries

\* The fallback loop of OpenZipReader with the reader at position pos
RECURSIVE ScanLocalHeaders(_, _, _, _)
ScanLocalHeaders(b, pos, File, FilesOrdered) ==
  LET off == findNextFileHeader(b, pos)
      done == [err |-> Nil, File |-> File, FilesOrdered |-> FilesOrdered]
      failed == [done EXCEPT !.err = EOF]
  IN
  IF off = -1 THEN done
  ELSE IF ReadFullErr(b, off + 8, 2) # Nil THEN failed
  ELSE IF ReadFullErr(b, off + 26, 2) # Nil THEN failed
  ELSE IF ReadFullErr(b, off + 28, 2) # Nil THEN failed
  ELSE
    LET method == LE16(b, off + 8)
        nameLen == LE16(b, off + 26)
        extraLen == LE16(b, off + 28)
        fileName == PathClean(SubSeq(b, off + 31, off + 30 + nameLen))
        fileOffset == off + 30 + nameLen + extraLen
        zrf == IF fileName \in DOMAIN File THEN File[fileName]
               ELSE NewZipReaderFile(0, -1)
        \* hdr: where the header was found, kept for the order properties
        sub == [offset |-> fileOffset, method |-> method, hdr |-> off]
    IN
    IF nameLen > 0 /\ ReadFullErr(b, off + 30, nameLen) # Nil THEN failed
    ELSE ScanLocalHeaders(b, off + 4,
           [n \in DOMAIN File \cup {fileName} |->
              IF n = fileName
              THEN [zrf EXCEPT !.entries = AddSubEntry(@, sub)]
              ELSE File[n]],
           Append(FilesOrdered, fileName))

EmptyFiles == [n \in {} |-> NewZipReaderFile(0, -1)]

\* OpenZipReader: [err, zr]
OpenZipReader(arch, owned) ==
  LET zipinfo == tryReadZip(arch)
      cdr == IndexCentralDirectory(zipinfo.File, 1, EmptyFiles, <<>>)
      scan == ScanLocalHeaders(arch.bytes, 0, EmptyFiles, <<>>)
      zr(F, O) == [File |-> F, FilesOrdered |-> O, zipFileReader |-> TRUE,
                   ownedZipFile |-> owned, closed |-> FALSE, pos |-> 0]
  IN  IF zipinfo.err = Nil
      THEN [err |-> Nil, zr |-> zr(cdr.File, cdr.FilesOrdered)]
      ELSE [err |-> scan.err, zr |-> zr(scan.File, scan.FilesOrdered)]

\* zipEntry.Open() of archive/zip for the entry at index k: the bytes its
\* reader delivers and how they end.  (The CRC check at the end of the data
\* is not modelled.)
ZipEntryStream(arch, k) ==
  LET zf == ZipEntryOf(arch, k)
      raw == SubSeq(arch.bytes, zf.offset + 1,
                    Min(zf.offset + zf.CompressedSize64, Len(arch.bytes)))
  IN  IF zf.Method = ZipStore THEN [data |-> raw, end |-> EOF]
      ELSE Inflate(raw)

\* A Close that closes the decompressor and keeps the reader
ZrfCloseKeepsReader(f) == [f EXCEPT !.internalCloser = "nil"]

\* ZipReaderFile.Close
ZrfClose(f) == [f EXCEPT !.internalReader = "nil", !.internalCloser = "nil",
                         !.pos = 0]

\* ZipReaderFile.Open: [err, f].  closed: the archive's os.File was closed, so
\* that zipEntry.Open() cannot read the entry's local header.
ZrfOpen(arch, f, closed) ==
  IF f.internalReader # "nil"
    THEN [err |-> Err("File is already opened.", 0, ""), f |-> f]
  ELSE IF f.zipEntry # 0
    THEN IF arch.cd[f.zipEntry].openErr \/ closed
         THEN [err |-> Err("zip: not a valid zip file", 0, ""),
               f |-> [f EXCEPT !.curEntry = 0]]
         ELSE [err |-> Nil,
               f |-> [f EXCEPT !.curEntry = 0, !.internalReader = "rc",
                               !.internalCloser = "rc", !.pos = 0]]
  ELSE [err |-> Nil, f |-> [f EXCEPT !.curEntry = -1]]

\* A Next that moves on without the test of curEntry+1 against len(entries)
ZrfNextPastTheEnd(f) ==
  [ok |-> TRUE, f |-> [ZrfClose(f) EXCEPT !.curEntry = @ + 1]]

\* ZipReaderFile.Next: [ok, f]
ZrfNext(f) ==
  IF Len(f.entries) = 0 /\ f.internalReader # "nil"
    THEN [ok |-> f.curEntry + 1 = 1, f |-> [f EXCEPT !.curEntry = @ + 1]]
  ELSE IF f.curEntry + 1 >= Len(f.entries)
    THEN [ok |-> FALSE, f |-> ZrfClose(f)]
  ELSE [ok |-> TRUE, f |-> [ZrfClose(f) EXCEPT !.curEntry = @ + 1]]

\* The bytes f's reader has still to deliver, pos being the position of the
\* archive's shared reader, and how they end.
ZrfStream(arch, f, pos) ==
  IF f.internalReader = "rc"
    THEN LET s == ZipEntryStream(arch, f.zipEntry)
         IN  [data |-> Drop(s.data, f.pos), end |-> s.end]
  ELSE IF f.internalReader = "flate"
    THEN LET s == Inflate(Drop(arch.bytes, f.entries[f.curEntry + 1].offset))
         IN  [data |-> Drop(s.data, f.pos), end |-> s.end]
  ELSE [data |-> Drop(arch.bytes, pos), end |-> EOF]

\* ZipReaderFile.Read with len(p) = len > 0: [n, err, data, f, pos], pos the
\* position of the archive's shared reader afterwards.  closed: the archive's
\* os.File was closed, so that its Seek and Read fail.
ZrfRead(arch, f0, pos0, len, closed) ==
  LET nx == IF f0.internalReader = "nil" /\ f0.curEntry = -1
            THEN ZrfNext(f0) ELSE [ok |-> TRUE, f |-> f0]
      f1 == nx.f
      fail == [n |-> 0, err |-> ErrUnexpectedEOF, data |-> <<>>, f |-> f1,
               pos |-> pos0]
      sub == f1.entries[f1.curEntry + 1]
      \* flate's buffered reader takes what the file holds, to its end
      f2 == IF f1.internalReader # "nil" THEN f1
            ELSE IF sub.method = ZipStore
              THEN [f1 EXCEPT !.internalReader = "zipFile"]
            ELSE [f1 EXCEPT !.internalReader = "flate",
                            !.internalCloser = "flate", !.pos = 0]
      pos1 == IF f1.internalReader # "nil" THEN pos0
              ELSE IF sub.method = ZipStore THEN sub.offset
              ELSE Len(arch.bytes)
      s == ZrfStream(arch, f2, pos1)
      n == Min(len, Len(s.data))
  IN
  IF f0.internalReader = "nil" /\ ~nx.ok THEN fail
  ELSE IF f1.internalReader = "nil" /\ f1.curEntry >= Len(f1.entries) THEN fail
  ELSE IF closed
    THEN [fail EXCEPT !.err = Err("file already closed", 0, ""),
                      !.f = IF f1.internalReader = "nil" THEN f1 ELSE f2]
  ELSE [n |-> n,
        err |-> IF n = 0 THEN s.end ELSE Nil,
        data |-> Take(s.data, n),
        f |-> IF f2.internalReader = "zipFile" THEN f2
              ELSE [f2 EXCEPT !.pos = @ + n],
        pos |-> IF f2.internalReader = "zipFile" THEN pos1 + n ELSE pos1]

\* ZipReader.Close: [err, zr]
ZipReaderClose(z) ==
  IF ~z.zipFileReader THEN [err |-> Nil, zr |-> z]
  ELSE [err |-> Nil,
        zr |-> [z EXCEPT !.File = [n \in DOMAIN z.File |-> ZrfClose(z.File[n])],
                         !.closed = z.closed \/ z.ownedZipFile,
                         !.ownedZipFile = FALSE,
                         !.zipFileReader = FALSE]]

\* The methods of the ZipReaderFile named n of the archive's ZipReader z
FileOpen(arch, z, n) ==
  LET r == ZrfOpen(arch, z.File[n], z.closed)
  IN  [err |-> r.err, zr |-> [z EXCEPT !.File[n] = r.f]]

FileNext(z, n) ==
  LET r == ZrfNext(z.File[n])
  IN  [ok |-> r.ok, zr |-> [z EXCEPT !.File[n] = r.f]]

FileRead(arch, z, n, len) ==
  LET r == ZrfRead(arch, z.File[n], z.pos, len, z.closed)
  IN  [n |-> r.n, err |-> r.err, data |-> r.data,
       zr |-> [z EXCEPT !.File[n] = r.f, !.pos = r.pos]]

FileClose(z, n) == [z EXCEPT !.File[n] = ZrfClose(z.File[n])]

\* ------------------------------------------------------------ apkparser.go

\* What ParseResourceTable (not among the sources) can do with the opened
\* resources.arsc: return a table, return an error without or with a partly
\* built table, or panic on a malformed input.
ResourceOutcomes == {"ok", "err", "errPartial", "panic"}

\* A table with an entry for 0x7F020001
SampleResources ==
  <<[id |-> <<32514, 1>>, str |-> <<98, 46, 112, 110, 103>>, err |-> FALSE]>>

\* parseResources from resourcesFile.Open() on: o is what Open gave, rd the
\* ZipReader after ParseResourceTable has read the file
ResourcesOpened(arch, resources, outcome, o, rd) ==
  IF o.err # Nil
    THEN [err |-> Err("Failed to open resources.arsc", 0, o.err.kind),
          panic |-> FALSE, zr |-> o.zr, resources |-> resources]
  ELSE [err |-> IF outcome \in {"err", "errPartial"}
                THEN Err("ParseResourceTable", 0, "") ELSE Nil,
        panic |-> outcome = "panic",
        zr |-> FileClose(rd, NameResources),
        resources |-> IF outcome \in {"ok", "errPartial"}
                      THEN SampleResources ELSE resources]

\* The file a successful Open leaves to ParseResourceTable, read to its end
ResourcesRead(arch, o) ==
  IF o.err # Nil THEN o.zr
  ELSE FileRead(arch, o.zr, NameResources, Huge).zr

ResourcesFound(arch, resources, outcome, o) ==
  ResourcesOpened(arch, resources, outcome, o, ResourcesRead(arch, o))

\* The body of ApkParser.parseResources, a panic of the decoder left to
\* propagate: [err, panic, zr, resources]
parseResourcesBody(arch, z, resources, outcome) ==
  IF resources # NoResources
    THEN [err |-> Nil, panic |-> FALSE, zr |-> z, resources |-> resources]
  ELSE IF NameResources \notin DOMAIN z.File
    THEN [err |-> Err("ErrNotExist", 0, ""), panic |-> FALSE, zr |-> z,
          resources |-> resources]
  ELSE ResourcesFound(arch, resources, outcome,
                      FileOpen(arch, z, NameResources))

\* A parseResources without its deferred recover
parseResourcesNoRecover(arch, z, resources, outcome) ==
  parseResourcesBody(arch, z, resources, outcome)

\* The deferred recover of parseResources on what its body gave
Recovered(r) ==
  IF r.panic THEN [r EXCEPT !.panic = FALSE, !.err = Err("Panic", 0, "")]
  ELSE r

\* ApkParser.parseResources: the deferred recover turns a panic into an error
parseResources(arch, z, resources, outcome) ==
  Recovered(parseResourcesBody(arch, z, resources, outcome))

\* The loop of ApkParser.ParseXml over file.Next(): [ok, lastErr, zr, toks,
\* attempts], attempts listing for each attempt the sub-entry it read, its
\* error and the tokens it gave the sink.
RECURSIVE ParseXmlAttempts(_, _, _, _, _, _, _)

\* The loop after ParseXml has returned r for the sub-entry z stands at: the
\* reader has delivered the r.n bytes ParseXml read
AttemptDone(arch, z, name, toks, resources, lastErr, attempts, r) ==
  IF r.err = Nil
    THEN [ok |-> TRUE, lastErr |-> lastErr, zr |-> z, toks |-> r.toks,
          attempts |-> attempts]
  ELSE ParseXmlAttempts(arch, z, name, r.toks, resources, r.err, attempts)

Attempted(arch, z, name, toks, resources, lastErr, attempts, r) ==
  AttemptDone(arch, FileRead(arch, z, name, Max(r.n, 1)).zr, name, toks,
              resources, lastErr,
              Append(attempts,
                     [cur |-> z.File[name].curEntry, err |-> r.err,
                      toks |-> SubSeq(r.toks, Len(toks) + 1, Len(r.toks))]),
              r)

\* The loop after file.Next() has returned nx
NextCalled(arch, name, toks, resources, lastErr, attempts, nx) ==
  IF ~nx.ok
    THEN [ok |-> FALSE, lastErr |-> lastErr, zr |-> nx.zr, toks |-> toks,
          attempts |-> attempts]
  ELSE Attempted(arch, nx.zr, name, toks, resources, lastErr, attempts,
                 ParseXml(FileRead(arch, nx.zr, name, Huge).data, toks,
                          resources))

ParseXmlAttempts(arch, z, name, toks, resources, lastErr, attempts) ==
  NextCalled(arch, name, toks, resources, lastErr, attempts,
             FileNext(z, name))

\* A result that reports the last error even after a later success
ApkParseXmlResultLastErr(name, l) ==
  IF l.lastErr = Nil THEN Nil
  ELSE IF l.lastErr = ErrPlainTextManifest THEN l.lastErr
  ELSE Err("Failed to parse", 0, l.lastErr.kind)

\* What ApkParser.ParseXml(name) returns after its loop, which keeps the last
\* error only
ApkParseXmlResult(name, l) ==
  IF l.ok THEN Nil
  ELSE IF l.lastErr = ErrPlainTextManifest THEN l.lastErr
  ELSE Err("Failed to parse", 0, l.lastErr.kind)

\* A return of ApkParser.ParseXml that leaves the file as the loop left it
XmlParsedNotClosed(name, l) ==
  [err |-> (IF l.ok THEN Nil
            ELSE IF l.lastErr = ErrPlainTextManifest THEN l.lastErr
            ELSE Err("Failed to parse", 0, l.lastErr.kind)),
   found |-> TRUE, opened |-> TRUE, zr |-> l.zr, toks |-> l.toks,
   attempts |-> l.attempts]

\* ApkParser.ParseXml after its loop has given l: the deferred file.Close()
XmlParsed(name, l) ==
  [err |-> ApkParseXmlResult(name, l), found |-> TRUE, opened |-> TRUE,
   zr |-> FileClose(l.zr, name), toks |-> l.toks, attempts |-> l.attempts]

\* ApkParser.ParseXml after file.Open() has given o
XmlOpened(arch, toks, resources, name, o) ==
  IF o.err # Nil
    THEN [err |-> o.err, found |-> TRUE, opened |-> FALSE, zr |-> o.zr,
          toks |-> toks, attempts |-> <<>>]
  ELSE XmlParsed(name, ParseXmlAttempts(arch, o.zr, name, toks, resources,
                                        Nil, <<>>))

\* ApkParser.ParseXml(name): [err, found, opened, zr, toks, attempts]
ApkParseXml(arch, z, toks, resources, name) ==
  IF name \notin DOMAIN z.File
    THEN [err |-> Err("Failed to find in APK!", 0, ""), found |-> FALSE,
          opened |-> FALSE, zr |-> z, toks |-> toks, attempts |-> <<>>]
  ELSE XmlOpened(arch, toks, resources, name, FileOpen(arch, z, name))

\* ParseApkWithZip after p.parseResources() has given r: manifest is the
\* result of p.ParseXml("AndroidManifest.xml"), which a panic leaving
\* parseResources would keep from being called
ResourcesParsed(arch, toks, r) ==
  IF r.panic
    THEN [panic |-> TRUE, resourcesErr |-> r.err, attempted |-> FALSE,
          manifest |-> [err |-> Nil, found |-> FALSE, opened |-> FALSE,
                        zr |-> r.zr, toks |-> toks, attempts |-> <<>>]]
  ELSE [panic |-> FALSE, resourcesErr |-> r.err, attempted |-> TRUE,
        manifest |-> ApkParseXml(arch, r.zr, toks, r.resources, NameManifest)]

\* ParseApkWithZip: [panic, resourcesErr, attempted, manifest]
ParseApkWithZip(arch, z, toks, outcome) ==
  ResourcesParsed(arch, toks, parseResources(arch, z, NoResources, outcome))

\* ------------------------------------------------------------- the inputs

Signature == <<80, 75, 3, 4>>

\* A local file header: method at +8, nameLen at +26, extraLen at +28, the
\* name at +30
LocalHeader(method, name) ==
  Signature \o <<20, 0, 0, 0>> \o Bytes16(method) \o <<0, 0, 0, 0>>
    \o <<0, 0, 0, 0>> \o <<0, 0, 0, 0>> \o <<0, 0, 0, 0>>
    \o Bytes16(Len(name)) \o Bytes16(0) \o name

\* A deflate stream of one stored block
Deflated(c) == <<1>> \o Bytes16(Len(c)) \o Bytes16(65535 - Len(c)) \o c

Payload(e) == IF e.method = ZipStore THEN e.content ELSE Deflated(e.content)

\* The archive of the entries es, in file order, with the central directory
\* naming them in that order; cdOk: whether archive/zip can read it.
RECURSIVE ArchiveBytes(_)
ArchiveBytes(es) ==
  IF es = <<>> THEN <<>>
  ELSE LocalHeader(es[1].method, es[1].name) \o Payload(es[1])
         \o ArchiveBytes(Tail(es))

RECURSIVE CentralDirectory(_, _)
CentralDirectory(es, at) ==
  IF es = <<>> THEN <<>>
  ELSE LET data == at + 30 + Len(es[1].name)
       IN  <<[Name |-> es[1].name, Method |-> es[1].method, offset |-> data,
              CompressedSize64 |-> Len(Payload(es[1])),
              UncompressedSize64 |-> Len(es[1].content),
              openErr |-> es[1].openErr]>>
           \o CentralDirectory(Tail(es), data + Len(Payload(es[1])))

Archive(es, cdOk) ==
  [bytes |-> ArchiveBytes(es), cd |-> CentralDirectory(es, 0), cdOk |-> cdOk,
   kinds |-> [k \in 1..Len(es) |-> <<es[k].name, es[k].kind>>]]

ChunkHeader(id, headerLen, len) ==
  Bytes16(id) \o Bytes16(headerLen) \o Bytes32(U32(len))

NoIndex == <<255, 255, 255, 255>>

\* A UTF-8 string pool chunk holding the one string "a"
PoolChunk ==
  ChunkHeader(chunkStringTable, 28, 36) \o Bytes32(U32(1)) \o Bytes32(U32(0))
    \o Bytes32(U32(256)) \o Bytes32(U32(32)) \o Bytes32(U32(0))
    \o Bytes32(U32(0)) \o <<1, 1, 97, 0>>

TagStartChunk ==
  ChunkHeader(chunkXmlTagStart, 16, 36) \o Bytes32(U32(1)) \o NoIndex
    \o NoIndex \o Bytes32(U32(0)) \o <<20, 0, 20, 0, 0, 0>>
    \o <<0, 0, 0, 0, 0, 0>>

TagEndChunk ==
  ChunkHeader(chunkXmlTagEnd, 16, 24) \o Bytes32(U32(1)) \o NoIndex
    \o NoIndex \o Bytes32(U32(0))

\* <a></a>
AxmlValid ==
  ChunkHeader(3, 8, 104) \o PoolChunk \o TagStartChunk \o TagEndChunk

\* The same document cut after its TAG_START chunk
AxmlTruncated == SubSeq(AxmlValid, 1, 80)

Garbage == <<1, 2, 3, 4, 5, 6, 7, 8, 9>>

\* <?xml version
PlainText == <<60, 63, 120, 109, 108, 32, 118, 101, 114, 115, 105, 111, 110>>

E(name, method, content, kind) ==
  [name |-> name, method |-> method, content |-> content, kind |-> kind,
   openErr |-> FALSE]

Manifest(method, content, kind) == E(NameManifest, method, content, kind)

Resources == E(NameResources, ZipStore, <<2, 0, 12, 0>>, "resources")

Archives ==
  << Archive(<<Manifest(ZipStore, Garbage, "garbage"),
               Manifest(ZipStore, AxmlValid, "valid"), Resources>>, FALSE),
     Archive(<<Manifest(ZipDeflate, AxmlValid, "valid"),
               Manifest(ZipDeflate, Garbage, "garbage")>>, FALSE),
     Archive(<<Manifest(ZipStore, Garbage, "garbage"),
               Manifest(ZipDeflate, AxmlValid, "valid"), Resources>>, TRUE),
     Archive(<<Manifest(ZipDeflate, AxmlValid, "valid"),
               Manifest(ZipStore, Garbage, "garbage"),
               E(NameResources, 99, <<2, 0, 12, 0>>, "resources")>>, TRUE),
     Archive(<<Manifest(ZipStore, Garbage, "garbage"),
               Manifest(ZipDeflate, PlainText, "plain")>>, FALSE),
     Archive(<<Manifest(ZipDeflate, PlainText, "plain"),
               Manifest(ZipStore, Garbage, "garbage"), Resources>>, FALSE),
     Archive(<<Manifest(ZipDeflate, AxmlValid, "valid"),
               Manifest(ZipStore, AxmlTruncated, "truncated")>>, FALSE),
     Archive(<<[Manifest(ZipStore, AxmlValid, "valid") EXCEPT !.openErr = TRUE],
               Resources>>, TRUE) >>

\* A string of a UTF-8 pool: the two lengths, the bytes and a NUL
Str8(str) == <<Len(str), Len(str)>> \o str \o <<0>>

RECURSIVE Units16(_)
Units16(us) ==
  IF us = <<>> THEN <<>> ELSE Bytes16(us[1]) \o Units16(Tail(us))

\* A string of a UTF-16 pool: the length, the code units and a NUL
Str16(us) == Bytes16(Len(us)) \o Units16(us) \o <<0, 0>>

RECURSIVE Offsets32(_)
Offsets32(os) ==
  IF os = <<>> THEN <<>> ELSE Bytes32(U32(os[1])) \o Offsets32(Tail(os))

\* The body of a STRING_TABLE chunk: stringCnt, styleCnt, flags, stringOffset,
\* styleOffset, the string offsets, the style array and the string data
PoolBody(cnt, flags, stringOffset, os, styles, data) ==
  Bytes32(U32(cnt)) \o Bytes32(U32(0)) \o Bytes32(U32(flags))
    \o Bytes32(U32(stringOffset)) \o Bytes32(U32(0)) \o Offsets32(os)
    \o styles \o data

StrA == <<97>>

StrBC == <<98, 99>>

\* What parseStringTable is given: the bytes a its reader can deliver, the
\* reader's limit N, the strings the pool was written from, and good, the
\* indices whose offset and string lie within the pool's data
PoolInput(a, N, strs, good) == [a |-> a, N |-> N, strs |-> strs, good |-> good]

WholePool(a, strs, good) == PoolInput(a, Len(a), strs, good)

PoolInputs ==
  << \* UTF-8, "a" and "bc"
     WholePool(PoolBody(2, 256, 36, <<0, 4>>, <<>>, Str8(StrA) \o Str8(StrBC)),
               <<StrA, StrBC>>, {0, 1}),
     \* UTF-16 with a style array, "a" and b NUL c
     WholePool(PoolBody(2, 0, 40, <<0, 6>>, <<0, 0, 0, 0>>,
                        Str16(StrA) \o Str16(<<98, 0, 99>>)),
               <<StrA, <<98>> \o RuneFFFE \o <<99>>>>, {0, 1}),
     \* UTF-8, the second offset beyond the data
     WholePool(PoolBody(2, 256, 36, <<0, 200>>, <<>>, Str8(StrA)),
               <<StrA, StrBC>>, {0}),
     \* UTF-16, the data ending within the one string
     WholePool(PoolBody(1, 0, 32, <<0>>, <<>>, <<5, 0, 97, 0>>),
               <<StrA>>, {}),
     \* UTF-8, three strings declared and the offsets of two: the data
     \* begins where the third offset would be
     WholePool(PoolBody(3, 256, 36, <<0, 4>>, <<>>, Str8(StrA) \o Str8(StrBC)),
               <<StrA, StrBC, StrA>>, {0, 1}),
     \* an unknown flag
     WholePool(PoolBody(1, 2, 32, <<0>>, <<>>, Str8(StrA)), <<StrA>>, {}),
     \* the reader ending before its limit
     PoolInput(PoolBody(1, 256, 32, <<0>>, <<>>, Str8(StrA)), 44, <<StrA>>, {}),
     \* UTF-8, "a" written with a NUL and a stray byte before it
     WholePool(PoolBody(2, 257, 36, <<0, 6>>, <<>>,
                        <<3, 3, 0, 200, 97, 0>> \o Str8(StrA)),
               <<RuneFFFE \o RuneFFFE \o StrA, StrA>>, {0, 1}) >>

\* The string counts and the string offsets that the headers of the pools
\* declare: counts about the limit of parseStringTable, offsets about the
\* end of the header, 28 bytes from the chunk's begin
\* The string tables and the indices given to getString of the binxml
\* parser: the indices around the length of the table, and large ones
MaxTable == 3

GetStringTables ==
  UNION {[1..n -> {StrA, StrPackage}] : n \in 0..MaxTable}

GetStringIndices ==
  {U32(n) : n \in 0..(MaxTable + 2)}
    \cup {<<1, 0>>, <<Half - 1, Half - 2>>, MaxUint32}

\* The pieces of the files given to the fallback scan: the byte 'P', a zero
\* byte, a stored entry named "a" with one byte of data, a deflated entry
\* named "b" with two bytes of extra field and no data, and a signature with
\* nothing after it.
ScanPieces ==
  << <<80>>,
     <<0>>,
     LocalHeader(ZipStore, StrA) \o <<7>>,
     [LocalHeader(ZipDeflate, <<98>>) EXCEPT ![29] = 2] \o <<9, 9>>,
     Signature >>

MaxPieces == 3

RECURSIVE ScanBytes(_)
ScanBytes(file) ==
  IF file = <<>> THEN <<>> ELSE ScanPieces[file[1]] \o ScanBytes(Tail(file))

ScanFiles ==
  UNION {[1..n -> 1..Len(ScanPieces)] : n \in 0..MaxPieces}

HeaderCounts == {0, 1, 2, 3, 2097151, 2097152, 2097153, 4194304}

HeaderOffsets == {20 + 2 * k : k \in 0..12}

\* The body of a UTF-8 pool whose header declares cnt and stringOffset, with
\* one offset and the string "a" after the header
HeaderBody(cnt, stringOffset) ==
  PoolBody(cnt, 256, stringOffset, <<0>>, <<>>, Str8(StrA))

\* The strings of the documents' pool, by index from 0: a, b, manifest,
\* package, name, platformBuildVersionCode, x and the empty string
DocStrs ==
  <<StrA, <<98>>, StrManifest, StrPackage, <<110, 97, 109, 101>>,
    StrPlatformBuildVersion \o <<67, 111, 100, 101>>, <<120>>, <<>>>>

\* The resource ids of the documents, by index from 0: those of name, label,
\* none, icon, versionCode, label, none, name and name
DocResIds ==
  <<<<257, 3>>, <<257, 1>>, <<257, 0>>, <<257, 2>>, <<257, 539>>, <<257, 1>>,
    <<257, 0>>, <<257, 3>>, <<257, 3>>>>

\* The string the pool holds at idx, -1 being 0xFFFFFFFF
DocStr(idx) == IF idx = -1 THEN <<>> ELSE DocStrs[idx + 1]

Idx32(idx) == IF idx = -1 THEN NoIndex ELSE Bytes32(U32(idx))

RECURSIVE Strs8(_)
Strs8(strs) == IF strs = <<>> THEN <<>> ELSE Str8(strs[1]) \o Strs8(Tail(strs))

RECURSIVE StrOffsets(_, _)
StrOffsets(strs, at) ==
  IF strs = <<>> THEN <<>>
  ELSE <<at>> \o StrOffsets(Tail(strs), at + Len(Str8(strs[1])))

RECURSIVE Ids32(_)
Ids32(ids) == IF ids = <<>> THEN <<>> ELSE Bytes32(ids[1]) \o Ids32(Tail(ids))

\* A chunk of a document: its kind, the indices and attributes it was written
\* from, and its bytes
Chunk(k, ns, name, attrs, bytes) ==
  [k |-> k, ns |-> ns, name |-> name, attrs |-> attrs, bytes |-> bytes]

\* A UTF-8 STRING_TABLE chunk of the strings strs
DPool(strs) ==
  Chunk("pool", -1, -1, <<>>,
        ChunkHeader(chunkStringTable, 28, 28 + 4 * Len(strs) + Len(Strs8(strs)))
          \o PoolBody(Len(strs), 256, 28 + 4 * Len(strs), StrOffsets(strs, 0),
                      <<>>, Strs8(strs)))

DResIds(ids) ==
  Chunk("resids", -1, -1, <<>>,
        ChunkHeader(chunkResourceIds, 8, 8 + 4 * Len(ids)) \o Ids32(ids))

\* An XML chunk: the header, the line number and the comment index, the body
\* and pad bytes after it that the chunk's length covers
XmlChunk(id, body, pad) ==
  ChunkHeader(id, 16, 16 + Len(body) + pad) \o Bytes32(U32(1)) \o NoIndex
    \o body \o [k \in 1..pad |-> 0]

\* An attribute as written: a ResAttr of 20 bytes
Attr(ns, name, raw, type, data) ==
  [ns |-> ns, name |-> name, raw |-> raw, type |-> type, data |-> data]

RECURSIVE AttrBytes(_)
AttrBytes(attrs) ==
  IF attrs = <<>> THEN <<>>
  ELSE Idx32(attrs[1].ns) \o Idx32(attrs[1].name) \o Idx32(attrs[1].raw)
         \o <<8, 0, 0, attrs[1].type>> \o Bytes32(attrs[1].data)
         \o AttrBytes(Tail(attrs))

DStart(ns, name, attrs) ==
  Chunk("start", ns, name, attrs,
        XmlChunk(chunkXmlTagStart,
                 Idx32(ns) \o Idx32(name) \o <<20, 0, 20, 0>>
                   \o Bytes16(Len(attrs)) \o <<0, 0, 0, 0, 0, 0>>
                   \o AttrBytes(attrs), 0))

\* A TAG_END chunk with pad bytes after the name index; pad is negative for a
\* chunk whose length ends before it
DEndPad(ns, name, pad) ==
  Chunk("end", ns, name, <<>>,
        XmlChunk(chunkXmlTagEnd, Idx32(ns) \o Idx32(name), pad))

DEnd(ns, name) == DEndPad(ns, name, 0)

DText(idx) ==
  Chunk("text", -1, idx, <<>>,
        XmlChunk(chunkXmlText, Idx32(idx) \o <<8, 0, 0, 3>> \o Idx32(idx), 0))

DNsStart(prefix, uri) ==
  Chunk("nsStart", uri, prefix, <<>>,
        XmlChunk(chunkXmlNsStart, Idx32(prefix) \o Idx32(uri), 0))

DNsEnd(prefix, uri) ==
  Chunk("nsEnd", uri, prefix, <<>>,
        XmlChunk(chunkXmlNsEnd, Idx32(prefix) \o Idx32(uri), 0))

\* A chunk of an id that ParseXml does not know
DUnknown == Chunk("unknown", -1, -1, <<>>, ChunkHeader(5, 8, 8))

RECURSIVE ChunksBytes(_)
ChunksBytes(cs) ==
  IF cs = <<>> THEN <<>> ELSE cs[1].bytes \o ChunksBytes(Tail(cs))

\* A document: its chunks, how many of them the top-level chunk's length
\* covers, and that length (the totalLen of the top header)
TopDoc(chunks, covered, top) ==
  [chunks |-> chunks, covered |-> covered, top |-> top]

Doc(chunks, covered) ==
  TopDoc(chunks, covered, 8 + Len(ChunksBytes(SubSeq(chunks, 1, covered))))

WholeDoc(chunks) == Doc(chunks, Len(chunks))

DocBytes(d) == ChunkHeader(3, 8, d.top) \o ChunksBytes(d.chunks)

\* A chunk whose header declares the total length len and nothing after it
DShort(k, id, len) == Chunk(k, -1, -1, <<>>, ChunkHeader(id, 8, len))

\* Resource ids the attributes refer to: of a file name, of a value that
\* cannot be formatted, of an empty value, and of no entry
RefPng == <<32514, 1>>

RefBad == <<32514, 2>>

RefEmpty == <<32514, 3>>

RefNone == <<32514, 4>>

DocResources ==
  <<[id |-> RefPng, str |-> <<98, 46, 112, 110, 103>>, err |-> FALSE],
    [id |-> RefBad, str |-> <<>>, err |-> TRUE],
    [id |-> RefEmpty, str |-> <<>>, err |-> FALSE]>>

AttrTypeIntDec == 16

\* An attribute named by the index name, a decimal integer n (n < 10)
IntAttr(name, n) == Attr(-1, name, -1, AttrTypeIntDec, U32(n))

StrAttr(name, raw) == Attr(-1, name, raw, AttrTypeString, U32(raw))

RefAttr(name, id) == Attr(-1, name, -1, AttrTypeReference, id)

Docs ==
  << \* <manifest package="a" platformBuildVersionCode=7 name="b"
     \*   versionCode=3 icon=@ref><a name=1 label=2>x</a></manifest>
     WholeDoc(<<DPool(DocStrs), DResIds(DocResIds), DNsStart(0, 1),
                DStart(-1, 2, <<StrAttr(3, 0), IntAttr(5, 7), StrAttr(0, 1),
                                IntAttr(4, 3), Attr(1, 3, -1, AttrTypeIntDec,
                                                    U32(4)),
                                Attr(1, 7, -1, AttrTypeIntDec, U32(5))>>),
                DStart(1, 0, <<IntAttr(0, 1), IntAttr(1, 2)>>), DText(6),
                DEnd(1, 0), DEnd(-1, 2), DNsEnd(0, 1)>>),
     \* references, no resource ids
     WholeDoc(<<DPool(DocStrs),
                DStart(-1, 0, <<RefAttr(1, RefPng), RefAttr(1, RefBad),
                                RefAttr(1, RefEmpty), RefAttr(1, RefNone)>>),
                DEnd(-1, 0)>>),
     \* names by resource id against a pool that holds another string, the
     \* empty string or no string there; ids without a name
     WholeDoc(<<DResIds(DocResIds), DPool(DocStrs),
                DStart(-1, 0, <<IntAttr(0, 1), IntAttr(7, 2), IntAttr(8, 3),
                                IntAttr(2, 4), IntAttr(6, 5), IntAttr(-1, 6),
                                Attr(1, 1, -1, AttrTypeIntDec, U32(7)),
                                IntAttr(3, 8)>>),
                DEnd(-1, 0)>>),
     \* a resource id without a name and no string at the index
     WholeDoc(<<DPool(<<StrA, StrA>>), DResIds(DocResIds),
                DStart(-1, 0, <<IntAttr(0, 1), IntAttr(2, 2)>>),
                DEnd(-1, 0)>>),
     \* an attribute name beyond the pool within a nested element
     WholeDoc(<<DPool(DocStrs), DStart(-1, 0, <<>>),
                DStart(-1, 1, <<IntAttr(99, 1)>>), DEnd(-1, 1),
                DEnd(-1, 0)>>),
     \* the top-level length ending before the TAG_END
     Doc(<<DPool(DocStrs), DStart(-1, 0, <<>>), DEnd(-1, 0)>>, 2),
     \* a TAG_END chunk longer than what parseTagEnd reads
     WholeDoc(<<DPool(DocStrs), DStart(-1, 0, <<>>), DEndPad(-1, 0, 4),
                DEnd(-1, 0)>>),
     \* a TAG_END chunk that ends before the name index
     WholeDoc(<<DPool(DocStrs), DStart(-1, 0, <<>>), DEndPad(-1, 0, -4),
                DEnd(-1, 0)>>),
     WholeDoc(<<DPool(DocStrs), DStart(-1, 0, <<>>), DUnknown, DEnd(-1, 0)>>),
     \* <a>x<b></b>x</a>
     WholeDoc(<<DPool(DocStrs), DStart(-1, 0, <<>>), DText(6),
                DStart(-1, 1, <<>>), DEnd(-1, 1), DText(6), DEnd(-1, 0)>>),
     \* no pool
     WholeDoc(<<DNsStart(-1, -1), DStart(-1, -1, <<>>), DText(-1),
                DEnd(-1, -1), DNsEnd(-1, -1)>>),
     \* the manifest element with names the pool does not hold
     WholeDoc(<<DPool(<<StrA, StrA, StrManifest>>), DResIds(DocResIds),
                DStart(-1, 2, <<IntAttr(7, 1), IntAttr(0, 2)>>),
                DEnd(-1, 2)>>),
     \* a chunk of resource ids whose length is less than its header's
     WholeDoc(<<DPool(DocStrs),
                Chunk("resids", -1, -1, <<>>,
                      ChunkHeader(chunkResourceIds, 8, 4)),
                DStart(-1, 0, <<>>), DEnd(-1, 0)>>),
     \* a chunk of resource ids whose length is not a multiple of 4
     WholeDoc(<<DPool(DocStrs),
                Chunk("resids", -1, -1, <<>>,
                      ChunkHeader(chunkResourceIds, 8, 10) \o <<1, 0>>),
                DStart(-1, 0, <<>>), DEnd(-1, 0)>>),
     \* two chunks of resource ids
     WholeDoc(<<DResIds(<<<<257, 1>>>>), DPool(DocStrs), DResIds(DocResIds),
                DStart(-1, 0, <<IntAttr(0, 1), IntAttr(1, 2)>>),
                DEnd(-1, 0)>>),
     \* a chunk of an unknown id among those of the XML chunks
     WholeDoc(<<DPool(DocStrs), DStart(-1, 0, <<>>), DText(6),
                Chunk("unknown", -1, -1, <<>>, XmlChunk(272, <<>>, 0)),
                DEnd(-1, 0)>>),
     \* chunks that declare a total length of 0, or another one below 8
     WholeDoc(<<DPool(DocStrs), DShort("resids", chunkResourceIds, 0),
                DStart(-1, 0, <<>>), DEnd(-1, 0)>>),
     WholeDoc(<<DShort("pool", chunkStringTable, 0), DStart(-1, 0, <<>>),
                DEnd(-1, 0)>>),
     WholeDoc(<<DPool(DocStrs), DStart(-1, 0, <<>>),
                DShort("start", chunkXmlTagStart, 0), DEnd(-1, 0),
                DEnd(-1, 0)>>),
     WholeDoc(<<DPool(DocStrs), DStart(-1, 0, <<>>),
                DShort("end", chunkXmlTagEnd, 7)>>),
     WholeDoc(<<DPool(DocStrs), DShort("unknown", 5, 0), DStart(-1, 0, <<>>),
                DEnd(-1, 0)>>),
     \* a top header of total length 8 before an element
     TopDoc(<<DPool(DocStrs), DStart(-1, 0, <<>>), DEnd(-1, 0)>>, 0, 8),
     \* top headers of a total length below 8
     TopDoc(<<DPool(DocStrs), DStart(-1, 0, <<>>)>>, 2, 0),
     TopDoc(<<DPool(DocStrs), DStart(-1, 0, <<>>), DText(6)>>, 3, 7),
     TopDoc(<<>>, 0, 4),
     \* a top header of total length 8 and nothing after it
     TopDoc(<<>>, 0, 8),
     \* documents without a pool: chunks of each kind that declare a total
     \* length below 8, after chunks that are read
     WholeDoc(<<DShort("resids", chunkResourceIds, 0), DNsStart(-1, -1)>>),
     WholeDoc(<<DNsStart(-1, -1), DStart(-1, -1, <<>>),
                DShort("start", chunkXmlTagStart, 0), DEnd(-1, -1),
                DEnd(-1, -1), DNsEnd(-1, -1)>>),
     WholeDoc(<<DNsStart(-1, -1), DStart(-1, -1, <<>>), DText(-1),
                DShort("text", chunkXmlText, 4), DEnd(-1, -1)>>),
     WholeDoc(<<DResIds(DocResIds), DNsStart(-1, -1), DStart(-1, -1, <<>>),
                DEnd(-1, -1), DShort("nsEnd", chunkXmlNsEnd, 7)>>),
     WholeDoc(<<DStart(-1, -1, <<>>), DStart(-1, -1, <<>>), DEnd(-1, -1),
                DEnd(-1, -1), DShort("unknown", 5, 0)>>),
     WholeDoc(<<DResIds(DocResIds), DShort("resids", chunkResourceIds, 4),
                DStart(-1, -1, <<>>), DEnd(-1, -1)>>),
     WholeDoc(<<DStart(-1, -1, <<>>), DShort("nsStart", chunkXmlNsStart, 0),
                DEnd(-1, -1)>>),
     WholeDoc(<<DStart(-1, -1, <<>>), DText(-1),
                DShort("end", chunkXmlTagEnd, 3)>>),
     \* <a><a>x</a>x</a> without a pool
     WholeDoc(<<DNsStart(-1, -1), DStart(-1, -1, <<>>), DStart(-1, -1, <<>>),
                DText(-1), DEnd(-1, -1), DText(-1), DEnd(-1, -1),
                DNsEnd(-1, -1)>>),
     \* a top header of total length 0 before an element without a pool
     TopDoc(<<DStart(-1, -1, <<>>), DText(-1)>>, 2, 0) >>

\* ------------------------------------------------------------ the machine

\* Reads ask for ReadLen bytes, or for all there is
ReadLen == 64

\* Next is not called on a file whose curEntry has reached MaxCurEntry
MaxCurEntry == 3

ReadLens == {ReadLen, Huge}

VARIABLES
  apk,        \* the archive: an index of Archives
  zr,         \* the ZipReader over it
  opened,     \* the names whose Open has succeeded with no Close since
  exhausted,  \* the names whose Next has returned false with no Open since
  ret,        \* what the last call returned, if of ZipReader or ZipReaderFile
  parser,     \* whether NewParser has returned an ApkParser
  resources,  \* p.resources of the ApkParser
  sink,       \* the tokens the encoder was given
  pret,       \* what the last call returned, if of the APK facade
  xin,        \* the bytes given to ParseXml
  xout,       \* what ParseXml returned for them
  pfr,        \* one pooledFlateReader, the reader it wraps and the pool
  mu,         \* the goroutine that holds the pooledFlateReader's mutex, or 0
  gor,        \* the goroutines that call its Read and Close
  pin,        \* the string pool chunk: an index of PoolInputs
  pool,       \* the stringTable, its cache and what get has returned so far
  pget,       \* what the last call of get returned
  doc,        \* the document given to ParseXml: an index of Docs
  dec,        \* ParseXml on it: its position, its variables, its last round
  chase,      \* the resolution of one Reference attribute, step by step
  hdr,        \* the header of a string pool chunk and what parsing it gave
  scan,       \* a file without central directory and what the scan recorded
  gs          \* a string table of the binxml parser, an index and getString

vars ==
  <<apk, zr, opened, exhausted, ret, parser, resources, sink, pret, xin, xout,
    pfr, mu, gor, pin, pool, pget, doc, dec, chase, hdr, scan, gs>>

zipVars == <<apk, zr, opened, exhausted, ret>>

apkVars == <<parser, resources, sink, pret>>

xmlVars == <<xin, xout>>

flateVars == <<pfr, mu, gor>>

poolVars == <<pin, pool, pget>>

decVars == <<doc, dec, chase>>

pureVars == <<hdr, scan, gs>>

sideVars == <<xmlVars, flateVars, poolVars, decVars, pureVars>>

\* The indices get is called with
PoolIndices == {U32(0), U32(1), U32(2), U32(Half), MaxUint32}

\* A stringTable that parseStringTable has not been called for; seen keeps
\* <<idx, result>> of the first get of each index
ZeroPool ==
  [state |-> "zero", st |-> EmptyStringTable, cache |-> {}, seen |-> {},
   declared |-> U32(0)]

NoPget ==
  [done |-> FALSE, idx |-> U32(0), r |-> [err |-> Nil, str |-> <<>>],
   panic |-> FALSE, repeated |-> FALSE, first |-> [err |-> Nil, str |-> <<>>]]

\* The round of ParseXml's loop before the first one
NoRound ==
  [id |-> 0, len |-> U32(0), N |-> 0, n |-> 0, err |-> Nil, at |-> 0,
   toks |-> 0, ids |-> 0]

\* ParseXml(r, enc, res) before its first statement: b the bytes r holds
NewDecode(b, res) ==
  [pc |-> "start", b |-> b, i |-> U32(0), totalLen |-> U32(0),
   x |-> [strings |-> EmptyStringTable, resourceIds |-> <<>>, toks |-> <<>>,
          res |-> res, n |-> 0],
   err |-> Nil, flushed |-> FALSE, rounds |-> 0, parsed |-> 0,
   last |-> NoRound]

\* The case attrTypeReference of parseTagStart before its first statement:
\* res the resource table, <<>> for nil, data the attribute's data
NewChase(res, data) ==
  [pc |-> "start", res |-> res, data |-> data,
   e |-> [dataType |-> 0, data |-> U32(0), str |-> <<>>], i |-> 0,
   lookups |-> 0, value |-> <<>>]

\* The header of a STRING_TABLE chunk before parseStringTable is called
\* with it: the stringCnt and the stringOffset it declares
NewHeader(cnt, stringOffset) ==
  [done |-> FALSE, cnt |-> cnt, stringOffset |-> stringOffset, err |-> Nil,
   kept |-> 0]

\* A file before OpenZipReader scans it for local file headers: file lists
\* the pieces it is made of, indices of ScanPieces
NewScan(file) ==
  [done |-> FALSE, file |-> file, err |-> Nil, File |-> EmptyFiles,
   FilesOrdered |-> <<>>]

\* x.stringTable of a binXmlParseInfo and an index, before getString is
\* called with it
NewGetString(stringTable, idx) ==
  [done |-> FALSE, stringTable |-> stringTable, idx |-> idx, str |-> <<>>,
   err |-> Nil, panic |-> FALSE]

PureIdle ==
  /\ hdr = NewHeader(0, 0)
  /\ scan = NewScan(<<>>)
  /\ gs = NewGetString(<<>>, U32(0))

DecodeIdle ==
  /\ doc = 1
  /\ dec = NewDecode(<<>>, NoResources)
  /\ chase = NewChase(<<>>, U32(0))
  /\ PureIdle

PoolIdle ==
  /\ pin = 1
  /\ pool = ZeroPool
  /\ pget = NoPget
  /\ DecodeIdle

\* The goroutines that share the pooledFlateReader, and the calls each makes
NumGoroutines == 3

MaxCalls == 2

Goroutines == 1..NumGoroutines

\* A pooledFlateReader as newFlateReader returns it: fr is whether r.fr is
\* non-nil; closes, puts and reads count the calls of fr.Close, of
\* flateReaderPool.Put(fr) and of fr.Read; staleReads those of fr.Read made
\* after the Put; closeCalls the calls of Close that have returned.
NewPooledFlateReader ==
  [fr |-> TRUE, closes |-> 0, puts |-> 0, reads |-> 0, staleReads |-> 0,
   closeCalls |-> 0]

\* A goroutine between calls: calls it has made, what the last one was and
\* returned, and whether the reader had been put back when it took the mutex
IdleGoroutine ==
  [pc |-> "idle", calls |-> 0, op |-> "none", err |-> Nil, afterPut |-> FALSE,
   didClose |-> FALSE]

FlateInit ==
  /\ pfr = NewPooledFlateReader
  /\ mu = 0
  /\ gor = [g \in Goroutines |-> IdleGoroutine]

NoRet ==
  [op |-> "none", name |-> <<>>, err |-> Nil, n |-> 0, ok |-> FALSE,
   wasOpen |-> FALSE, wasExhausted |-> FALSE, wasClosed |-> FALSE,
   same |-> FALSE, prev |-> -1, cur |-> -1]

NoPret ==
  [op |-> "none", panic |-> FALSE, resCase |-> "none", resourcesErr |-> Nil,
   attempted |-> FALSE, err |-> Nil, alone |-> Nil, found |-> FALSE,
   opened |-> FALSE, fresh |-> FALSE, attempts |-> <<>>, added |-> <<>>,
   subEntries |-> 0, name |-> <<>>, again |-> FALSE]

NoXout == [done |-> FALSE, err |-> Nil, toks |-> <<>>, flushed |-> FALSE, n |-> 0]

\* The header position of the sub-entry f stands at, -1 when at none
HdrAt(f) ==
  IF f.curEntry >= 0 /\ f.curEntry < Len(f.entries)
  THEN f.entries[f.curEntry + 1].hdr ELSE -1

\* The state after OpenZip (owned) or OpenZipReader on one of the archives
Init ==
  /\ apk \in 1..Len(Archives)
  /\ \E owned \in BOOLEAN : zr = OpenZipReader(Archives[apk], owned).zr
  /\ opened = {}
  /\ exhausted = {}
  /\ ret = NoRet
  /\ parser = FALSE
  /\ resources = NoResources
  /\ sink = <<>>
  /\ pret = NoPret
  /\ xin = <<>>
  /\ xout = NoXout
  /\ FlateInit
  /\ PoolIdle

DoOpen ==
  \E n \in DOMAIN zr.File :
    LET r == FileOpen(Archives[apk], zr, n)
    IN  /\ zr' = r.zr
        /\ opened' = IF r.err = Nil THEN opened \cup {n} ELSE opened
        /\ exhausted' = IF r.err = Nil THEN exhausted \ {n} ELSE exhausted
        /\ ret' = [NoRet EXCEPT !.op = "Open", !.name = n, !.err = r.err,
                                !.wasOpen = n \in opened]
        /\ pret' = NoPret
        /\ UNCHANGED <<apk, parser, resources, sink, sideVars>>

DoRead ==
  \E n \in DOMAIN zr.File, len \in ReadLens :
    LET r == FileRead(Archives[apk], zr, n, len)
    IN  /\ zr' = r.zr
        /\ ret' = [NoRet EXCEPT !.op = "Read", !.name = n, !.err = r.err,
                                !.n = r.n, !.wasOpen = n \in opened,
                                !.wasExhausted = n \in exhausted]
        /\ pret' = NoPret
        /\ UNCHANGED <<apk, opened, exhausted, parser, resources, sink, sideVars>>

DoNext ==
  \E n \in DOMAIN zr.File :
    LET r == FileNext(zr, n)
    IN  /\ zr.File[n].curEntry < MaxCurEntry
        /\ zr' = r.zr
        /\ exhausted' = IF r.ok THEN exhausted ELSE exhausted \cup {n}
        /\ ret' = [NoRet EXCEPT !.op = "Next", !.name = n, !.ok = r.ok,
                                !.wasOpen = n \in opened,
                                !.prev = HdrAt(zr.File[n]),
                                !.cur = HdrAt(r.zr.File[n])]
        /\ pret' = NoPret
        /\ UNCHANGED <<apk, opened, parser, resources, sink, sideVars>>

DoClose ==
  \E n \in DOMAIN zr.File :
    /\ zr' = FileClose(zr, n)
    /\ opened' = opened \ {n}
    /\ ret' = [NoRet EXCEPT !.op = "Close", !.name = n,
                            !.wasOpen = n \in opened]
    /\ pret' = NoPret
    /\ UNCHANGED <<apk, exhausted, parser, resources, sink, sideVars>>

DoZipClose ==
  LET r == ZipReaderClose(zr)
  IN  /\ zr' = r.zr
      /\ opened' = IF zr.zipFileReader THEN {} ELSE opened
      /\ ret' = [NoRet EXCEPT !.op = "ZipClose", !.err = r.err,
                              !.n = Cardinality({n \in DOMAIN zr.File :
                                       zr.File[n].internalReader # "nil"}),
                              !.wasClosed = ~zr.zipFileReader,
                              !.same = (r.zr = zr)]
      /\ pret' = NoPret
      /\ UNCHANGED <<apk, exhausted, parser, resources, sink, sideVars>>

Next == DoOpen \/ DoRead \/ DoNext \/ DoClose \/ DoZipClose

\* The ZipReader and its files under any use of their methods
Spec == Init /\ [][Next]_vars

\* --------------------------------------------------- ZipReaderFile claims

\* C7: Open returns an error whenever the file has been opened and not closed
\* since, whatever Read and Next calls came in between, in both modes.
C7_OpenOnOpenedFileErrors ==
  (ret.op = "Open" /\ ret.wasOpen) => ret.err # Nil

\* C8: once Next has returned false, every Read until the file is opened
\* again returns 0 bytes and an end-of-stream error.
C8_ReadAfterExhaustionIsEndOfStream ==
  (ret.op = "Read" /\ ret.wasExhausted)
    => (ret.n = 0 /\ ret.err \in {EOF, ErrUnexpectedEOF})

\* C9: the sub-entries sharing a name are yielded by Next in the order of
\* their discovery, that is by ascending position of their local headers.
C9_NextYieldsDiscoveryOrder ==
  (ret.op = "Next" /\ ret.ok /\ ret.prev # -1) => ret.prev < ret.cur

\* C9, as amended: Next yields the sub-entries sharing a name in the reverse
\* of their discovery order, the one whose local header comes last first.
C9_NextYieldsReverseDiscoveryOrder ==
  /\ (ret.op = "Next" /\ ret.ok /\ ret.prev # -1) => ret.prev > ret.cur
  /\ \A n \in DOMAIN zr.File :
       \A i \in 1..Len(zr.File[n].entries) - 1 :
         zr.File[n].entries[i].hdr > zr.File[n].entries[i + 1].hdr

C9_Witness ==
  /\ ret.op = "Next" /\ ret.ok
  /\ ret.prev # -1 /\ ret.cur # -1 /\ ret.prev > ret.cur

\* C10: a Close of the open ZipReader leaves none of its files with a reader
\* or a decompressor; a Close of the closed ZipReader returns nil and changes
\* nothing.
C10_ZipCloseClosesAllAndIsIdempotent ==
  /\ (ret.op = "ZipClose" /\ ~ret.wasClosed)
       => /\ ret.err = Nil
          /\ ~zr.zipFileReader
          /\ \A n \in DOMAIN zr.File :
               /\ zr.File[n].internalReader = "nil"
               /\ zr.File[n].internalCloser = "nil"
  /\ (ret.op = "ZipClose" /\ ret.wasClosed) => (ret.err = Nil /\ ret.same)

\* A Close that found two files open
C10_Witness ==
  /\ ret.op = "ZipClose" /\ ~ret.wasClosed /\ ret.n = 2
  /\ \A n \in DOMAIN zr.File : zr.File[n].internalReader = "nil"

\* How many times the name n occurs in FilesOrdered
Occurs(FilesOrdered, n) ==
  Cardinality({k \in DOMAIN FilesOrdered : FilesOrdered[k] = n})

\* zipEntry set and no sub-entry
CentralDirectoryMode(f) == f.zipEntry # 0 /\ f.entries = <<>>

\* zipEntry nil and one sub-entry for each time the file is in FilesOrdered
FallbackMode(f, n) ==
  /\ f.zipEntry = 0
  /\ Len(f.entries) >= 1
  /\ Len(f.entries) = Occurs(zr.FilesOrdered, n)

\* C27: every ZipReaderFile is in exactly one of the two modes, and in
\* fallback mode curEntry stays between -1 and len(entries) - 1 whatever
\* Open, Read, Next and Close are called.
C27_OneModeAndCurEntryInRange ==
  \A n \in DOMAIN zr.File :
    /\ CentralDirectoryMode(zr.File[n]) # FallbackMode(zr.File[n], n)
    /\ FallbackMode(zr.File[n], n)
         => /\ -1 <= zr.File[n].curEntry
            /\ zr.File[n].curEntry <= Len(zr.File[n].entries) - 1

\* Next has returned false on a fallback file of two sub-entries that is at
\* its last one
C27_Witness ==
  /\ ret.op = "Next" /\ ~ret.ok
  /\ FallbackMode(zr.File[ret.name], ret.name)
  /\ Len(zr.File[ret.name].entries) = 2
  /\ zr.File[ret.name].curEntry = 1

\* ------------------------------------------------------ the APK facade

\* A ParseXml of the ApkParser is not begun with more than MaxSink tokens in
\* its encoder
MaxSink == 1

NameMissing == <<120>>

\* Whether no file of z holds a reader and z has not been closed
Fresh(z) ==
  /\ z.zipFileReader
  /\ \A n \in DOMAIN z.File : z.File[n].internalReader = "nil"

\* How many sub-entries the file named n stands for
SubEntries(z, n) ==
  IF n \notin DOMAIN z.File THEN 0
  ELSE IF z.File[n].zipEntry # 0 THEN 1
  ELSE Len(z.File[n].entries)

\* Which way parseResources goes from z when the decoder would end in outcome
ResCase(arch, z, outcome) ==
  IF NameResources \notin DOMAIN z.File THEN "missing"
  ELSE IF FileOpen(arch, z, NameResources).err # Nil THEN "openFailed"
  ELSE outcome

\* The call that returned last was a ParseXml or a parseResources of the
\* ApkParser whose Open of the file named n had succeeded
ReturnedOpened(n) ==
  \/ pret.op \in {"ParseXml", "ParseApkWithZip"} /\ pret.name = n /\ pret.opened
  \/ /\ pret.op \in {"NewParser", "ParseApkWithZip"} /\ n = NameResources
     /\ pret.resCase \notin {"none", "missing", "openFailed"}

ManifestRet(op, arch, z, name, m, toks) ==
  [NoPret EXCEPT !.op = op, !.attempted = TRUE, !.err = m.err,
                 !.found = m.found, !.name = name,
                 !.again = ReturnedOpened(name),
                 !.opened = m.opened, !.attempts = m.attempts,
                 !.added = SubSeq(m.toks, Len(toks) + 1, Len(m.toks)),
                 !.fresh = Fresh(z), !.subEntries = SubEntries(z, name)]

\* ParseApkWithZip(zip, encoder) with a new encoder
ApkParseApkWithZip ==
  \E outcome \in ResourceOutcomes, arch \in {Archives[apk]} :
    \E r \in {ParseApkWithZip(arch, zr, <<>>, outcome)},
       alone \in {ApkParseXml(arch, zr, <<>>, NoResources, NameManifest)} :
      /\ zr' = r.manifest.zr
      /\ sink' = r.manifest.toks
      /\ pret' = [ManifestRet("ParseApkWithZip", arch, zr, NameManifest,
                              r.manifest, <<>>)
                    EXCEPT !.panic = r.panic,
                           !.resCase = ResCase(arch, zr, outcome),
                           !.resourcesErr = r.resourcesErr,
                           !.attempted = r.attempted,
                           !.alone = alone.err]
      /\ opened' = opened \ {NameManifest, NameResources}
      /\ ret' = NoRet
      /\ UNCHANGED <<apk, exhausted, parser, resources, sideVars>>

\* NewParser(zip, encoder) with a new encoder
ApkNewParser ==
  \E outcome \in ResourceOutcomes, arch \in {Archives[apk]} :
    \E r \in {parseResources(arch, zr, NoResources, outcome)} :
      /\ ~r.panic
      /\ zr' = r.zr
      /\ parser' = TRUE
      /\ resources' = r.resources
      /\ sink' = <<>>
      /\ pret' = [NoPret EXCEPT !.op = "NewParser",
                                !.resCase = ResCase(arch, zr, outcome),
                                !.resourcesErr = r.err, !.fresh = Fresh(zr)]
      /\ opened' = IF r.zr = zr THEN opened ELSE opened \ {NameResources}
      /\ ret' = NoRet
      /\ UNCHANGED <<apk, exhausted, sideVars>>

\* p.ParseXml(name) of the parser NewParser returned
ApkParserParseXml ==
  \E name \in {NameManifest, NameResources, NameMissing},
     arch \in {Archives[apk]} :
    /\ parser
    /\ Len(sink) <= MaxSink
    /\ \E m \in {ApkParseXml(arch, zr, sink, resources, name)} :
         /\ zr' = m.zr
         /\ sink' = m.toks
         /\ pret' = ManifestRet("ParseXml", arch, zr, name, m, sink)
         /\ opened' = IF m.opened THEN opened \ {name} ELSE opened
         /\ ret' = NoRet
         /\ UNCHANGED <<apk, exhausted, parser, resources, sideVars>>

NextApk ==
  \/ ApkParseApkWithZip
  \/ ApkNewParser
  \/ ApkParserParseXml
  \/ DoOpen
  \/ DoClose
  \/ DoZipClose

\* The APK facade over a ZipReader whose files its caller may open and close
SpecApk == Init /\ [][NextApk]_vars

\* --------------------------------------------------- APK facade claims

ParsedXml == pret.op \in {"ParseXml", "ParseApkWithZip"} /\ pret.attempted

AttemptFailed(i) == pret.attempts[i].err # Nil

\* The archive holds exactly two AndroidManifest.xml entries, one of them a
\* valid binary XML and the other one garbage.
TwoManifests ==
  LET ks == Archives[apk].kinds
      ms == {k \in DOMAIN ks : ks[k][1] = NameManifest}
  IN  /\ Cardinality(ms) = 2
      /\ {ks[k][2] : k \in ms} = {"valid", "garbage"}

\* C1: ParseApkWithZip attempts the manifest after the resources whatever
\* became of the resources; when resources.arsc is missing, cannot be opened,
\* fails to parse or makes the decoder panic, resourcesErr is non-nil, no
\* panic leaves the call, and manifestErr is what parsing the manifest alone
\* gives.
C1_ManifestParsedWhateverTheResources ==
  pret.op = "ParseApkWithZip"
    => /\ ~pret.panic
       /\ pret.attempted
       /\ pret.resCase # "ok"
            => (pret.resourcesErr # Nil /\ pret.err = pret.alone)

\* The decoder panicked on resources.arsc and the manifest was parsed
C1_Witness ==
  /\ pret.op = "ParseApkWithZip" /\ pret.resCase = "panic"
  /\ pret.resourcesErr.kind = "Panic"
  /\ pret.attempted /\ pret.err = Nil /\ Len(sink) > 0

\* C3: when ApkParser.ParseXml goes through several sub-entries and none
\* succeeds, a PlainTextManifest outcome of any of the attempts is what it
\* returns, a later attempt's error not masking it.
C3_PlainTextManifestNotMasked ==
  ( /\ ParsedXml /\ pret.opened /\ pret.err # Nil
    /\ \E i \in DOMAIN pret.attempts :
         pret.attempts[i].err = ErrPlainTextManifest )
    => pret.err = ErrPlainTextManifest

\* The attempts of ApkParser.ParseXml go through the sub-entries in the order
\* of Next, end with the first success, and a success returns nil.
AttemptsInNextOrder ==
  /\ \A i \in DOMAIN pret.attempts :
       pret.attempts[i].cur = pret.attempts[1].cur + i - 1
  /\ \A i \in 1..Len(pret.attempts) - 1 : AttemptFailed(i)
  /\ pret.err = Nil
       <=> (pret.attempts # <<>> /\ ~AttemptFailed(Len(pret.attempts)))

AllAttemptedAndFailed ==
  /\ Len(pret.attempts) = pret.subEntries
  /\ \A i \in DOMAIN pret.attempts : AttemptFailed(i)

\* C4: ApkParser.ParseXml tries the sub-entries in the order of Next, stops
\* at the first success and returns nil, and returns a non-nil error only
\* when every sub-entry was attempted and failed.
C4_ErrorOnlyWhenEveryAttemptFailed ==
  ParsedXml => /\ AttemptsInNextOrder
               /\ pret.err # Nil => AllAttemptedAndFailed

\* C4, as amended: a non-nil error is returned only when the entry is not in
\* the archive, when it cannot be opened, or when every sub-entry was
\* attempted and failed.
C4_ErrorOnlyWhenNotOpenedOrEveryAttemptFailed ==
  ParsedXml
    => /\ AttemptsInNextOrder
       /\ pret.err # Nil
            => (~pret.found \/ ~pret.opened \/ AllAttemptedAndFailed)
       /\ (pret.found /\ ~pret.opened)
            => (pret.err # Nil /\ pret.attempts = <<>>)

\* Two sub-entries were attempted and both failed
C4_Witness ==
  /\ ParsedXml /\ pret.opened /\ pret.err # Nil
  /\ Len(pret.attempts) = 2 /\ pret.subEntries = 2

\* C5: an archive with two AndroidManifest.xml entries, one valid and one
\* garbage, in either order, is parsed successfully, whether indexed from its
\* central directory or by the fallback scan.
C5_ValidAndGarbageManifestParses ==
  (pret.op = "ParseApkWithZip" /\ pret.fresh /\ TwoManifests)
    => pret.err = Nil

\* C6: when ApkParser.ParseXml returns nil after failed attempts, the tokens
\* the sink was given are exactly those of the successful sub-entry.
C6_SinkHoldsTheSuccessfulEntryOnly ==
  (ParsedXml /\ pret.err = Nil /\ Len(pret.attempts) > 1)
    => pret.added = pret.attempts[Len(pret.attempts)].toks

\* The file named n holds no reader
Closed(n) ==
  /\ zr.File[n].internalReader = "nil"
  /\ zr.File[n].internalCloser = "nil"

\* The curEntry of f at the first attempt of an iteration from its start
FirstCur(f) == IF f.zipEntry # 0 THEN 1 ELSE 0

\* C30: after ApkParser.ParseXml or ApkParser.parseResources has returned,
\* with success or with an error after a successful Open, the file it opened
\* holds no reader, and a ParseXml of the same name that comes next opens it
\* without error and begins at the first sub-entry.
C30_FileClosedAfterReturn ==
  /\ \A n \in DOMAIN zr.File : ReturnedOpened(n) => Closed(n)
  /\ (pret.op = "ParseXml" /\ pret.again)
       => /\ pret.opened
          /\ pret.attempts # <<>>
          /\ pret.attempts[1].cur = FirstCur(zr.File[pret.name])

\* A second ParseXml of a manifest of two sub-entries, the first having
\* failed on both: it has tried both again, from the first one
C30_Witness ==
  /\ pret.op = "ParseXml" /\ pret.again /\ pret.name = NameManifest
  /\ pret.opened /\ pret.err # Nil
  /\ zr.File[NameManifest].zipEntry = 0
  /\ Len(pret.attempts) = 2 /\ pret.attempts[1].cur = 0
  /\ Closed(NameManifest)

\* ------------------------------------------------------ ParseXml alone

\* The inputs of ParseXml continue a beginning with up to MaxSuffix bytes
MaxSuffix == 3

SuffixBytes == {0, 32, 118}

RECURSIVE SeqsUpTo(_, _)
SeqsUpTo(S, n) ==
  IF n = 0 THEN {<<>>}
  ELSE LET shorter == SeqsUpTo(S, n - 1)
       IN  shorter \cup {Append(q, c) : q \in shorter, c \in S}

\* "<?xml ", "<manif", and two beginnings that come close to them
XmlBeginnings ==
  {StrXmlDecl, StrManif, <<60, 63, 120, 109, 108, 62>>,
   <<60, 109, 97, 110, 105, 32>>}

XmlInputs ==
  {p \o q : p \in XmlBeginnings, q \in SeqsUpTo(SuffixBytes, MaxSuffix)}
    \cup {AxmlValid, AxmlTruncated, Garbage, PlainText}

InitXml ==
  /\ apk = 1
  /\ zr = OpenZipReader(Archives[apk], FALSE).zr
  /\ opened = {}
  /\ exhausted = {}
  /\ ret = NoRet
  /\ parser = FALSE
  /\ resources = NoResources
  /\ sink = <<>>
  /\ pret = NoPret
  /\ xin \in XmlInputs
  /\ xout = NoXout
  /\ FlateInit
  /\ PoolIdle

\* ParseXml(r, enc, nil) on a reader of the bytes xin and a new encoder
XmlParse ==
  /\ ~xout.done
  /\ \E r \in {ParseXml(xin, <<>>, NoResources)} :
       xout' = [done |-> TRUE, err |-> r.err, toks |-> r.toks,
                flushed |-> r.flushed, n |-> r.n]
  /\ UNCHANGED <<zipVars, apkVars, pureVars, xin, flateVars, poolVars, decVars>>

NextXml == XmlParse

\* ParseXml applied to each of the inputs
SpecXml == InitXml /\ [][NextXml]_vars

BeginsAsPlainText == HasPrefix(xin, StrXmlDecl) \/ HasPrefix(xin, StrManif)

\* C2: for every input that begins with "<?xml " or "<manif", of any length,
\* ParseXml returns exactly ErrPlainTextManifest.
C2_PlainTextOfAnyLengthIsDetected ==
  (xout.done /\ BeginsAsPlainText) => xout.err = ErrPlainTextManifest

\* C2, as amended: for every input of at least 8 bytes that begins with
\* "<?xml " or "<manif", ParseXml returns exactly ErrPlainTextManifest, with
\* nothing given to the encoder; a shorter input ends in the error of reading
\* the first chunk header.
C2_PlainTextOfHeaderSizeIsDetected ==
  (xout.done /\ BeginsAsPlainText)
    => IF Len(xin) >= chunkHeaderSize
       THEN xout.err = ErrPlainTextManifest /\ xout.toks = <<>> /\ ~xout.flushed
       ELSE xout.err \in {EOF, ErrUnexpectedEOF}

C2_Witness ==
  /\ xout.done /\ HasPrefix(xin, StrManif) /\ Len(xin) >= chunkHeaderSize
  /\ xout.err = ErrPlainTextManifest

\* ---------------------------------------------------- pooledFlateReader

\* A mutex that lets every Lock through
CanLockAlways(m) == TRUE

\* sync.Mutex.Lock returns once no goroutine holds the mutex
CanLock(m) == m = 0

\* The goroutine g at pc, the rest of its record kept
At(g, pc) == [gor EXCEPT ![g].pc = pc]

\* r.mu.Lock() of Read or Close (op), from between two calls
Lock(g, op, pc) ==
  /\ gor[g].pc = "idle"
  /\ gor[g].calls < MaxCalls
  /\ CanLock(mu)
  /\ mu' = g
  /\ gor' = [gor EXCEPT ![g] = [pc |-> pc, calls |-> @.calls, op |-> op,
                                err |-> Nil, afterPut |-> pfr.puts > 0,
                                didClose |-> FALSE]]
  /\ UNCHANGED pfr

ReadLock(g) == Lock(g, "Read", "rCheck")

\* Read: if r.fr == nil { return 0, errors.New("Read after Close") }
ReadCheck(g) ==
  /\ gor[g].pc = "rCheck"
  /\ gor' = IF pfr.fr THEN At(g, "rRead")
            ELSE [gor EXCEPT ![g].pc = "unlock",
                             ![g].err = Err("Read after Close", 0, "")]
  /\ UNCHANGED <<pfr, mu>>

\* Read: return r.fr.Read(p)
ReadUnderlying(g) ==
  /\ gor[g].pc = "rRead"
  /\ pfr' = [pfr EXCEPT !.reads = @ + 1,
                        !.staleReads = IF pfr.puts > 0 THEN @ + 1 ELSE @]
  /\ gor' = At(g, "unlock")
  /\ UNCHANGED mu

CloseLock(g) == Lock(g, "Close", "cCheck")

\* Close: if r.fr != nil
CloseCheck(g) ==
  /\ gor[g].pc = "cCheck"
  /\ gor' = IF pfr.fr THEN At(g, "cClose") ELSE At(g, "unlock")
  /\ UNCHANGED <<pfr, mu>>

\* Close: err = r.fr.Close()
CloseUnderlying(g) ==
  /\ gor[g].pc = "cClose"
  /\ pfr' = [pfr EXCEPT !.closes = @ + 1]
  /\ gor' = [gor EXCEPT ![g].pc = "cPut", ![g].didClose = TRUE]
  /\ UNCHANGED mu

\* Close: flateReaderPool.Put(r.fr)
ClosePut(g) ==
  /\ gor[g].pc = "cPut"
  /\ pfr' = [pfr EXCEPT !.puts = @ + 1]
  /\ gor' = At(g, "cNil")
  /\ UNCHANGED mu

\* Close: r.fr = nil
CloseNil(g) ==
  /\ gor[g].pc = "cNil"
  /\ pfr' = [pfr EXCEPT !.fr = FALSE]
  /\ gor' = At(g, "unlock")
  /\ UNCHANGED mu

\* The deferred r.mu.Unlock() and the return of Read or Close
Unlock(g) ==
  /\ gor[g].pc = "unlock"
  /\ mu' = 0
  /\ gor' = [gor EXCEPT ![g].pc = "idle", ![g].calls = @ + 1]
  /\ pfr' = IF gor[g].op = "Close" THEN [pfr EXCEPT !.closeCalls = @ + 1]
            ELSE pfr

InitFlate ==
  /\ apk = 1
  /\ zr = OpenZipReader(Archives[apk], FALSE).zr
  /\ opened = {}
  /\ exhausted = {}
  /\ ret = NoRet
  /\ parser = FALSE
  /\ resources = NoResources
  /\ sink = <<>>
  /\ pret = NoPret
  /\ xin = <<>>
  /\ xout = NoXout
  /\ FlateInit
  /\ PoolIdle

NextFlate ==
  \E g \in Goroutines :
    /\ \/ ReadLock(g)
       \/ ReadCheck(g)
       \/ ReadUnderlying(g)
       \/ CloseLock(g)
       \/ CloseCheck(g)
       \/ CloseUnderlying(g)
       \/ ClosePut(g)
       \/ CloseNil(g)
       \/ Unlock(g)
    /\ UNCHANGED <<zipVars, apkVars, pureVars, xmlVars, poolVars, decVars>>

\* One pooledFlateReader shared by goroutines that call Read and Close
SpecFlate == InitFlate /\ [][NextFlate]_vars

\* C11: under any interleaving of concurrent Read and Close calls on one
\* pooledFlateReader, the underlying flate reader is closed and put back into
\* the pool at most once, no Read reaches it after it was put back (a Read
\* begun after the Put returns an error), and a Close begun after the Put does
\* nothing.
C11_PooledReaderClosedAndPutBackOnce ==
  /\ pfr.closes <= 1
  /\ pfr.puts <= 1
  /\ pfr.staleReads = 0
  /\ \A g \in Goroutines :
       /\ gor[g].pc = "rRead" => (pfr.fr /\ pfr.puts = 0)
       /\ (gor[g].op = "Read" /\ gor[g].afterPut)
            => /\ gor[g].pc \in {"rCheck", "unlock", "idle"}
               /\ gor[g].pc # "rCheck" => gor[g].err # Nil
       /\ (gor[g].op = "Close" /\ gor[g].afterPut)
            => /\ gor[g].pc \in {"cCheck", "unlock", "idle"}
               /\ ~gor[g].didClose /\ gor[g].err = Nil

\* The reader was read, closed and put back, and a Read and a Close that came
\* after the Put have returned
C11_Witness ==
  /\ pfr.reads > 0 /\ pfr.closes = 1 /\ pfr.puts = 1 /\ ~pfr.fr
  /\ \E g, h \in Goroutines :
       /\ gor[g].pc = "idle" /\ gor[g].op = "Read" /\ gor[g].afterPut
       /\ gor[g].err # Nil
       /\ gor[h].pc = "idle" /\ gor[h].op = "Close" /\ gor[h].afterPut
       /\ ~gor[h].didClose

\* ------------------------------------------------------- the string pool

\* x.strings, err = parseStringTable(lm) on the chunk pin
PoolParse ==
  /\ pool.state = "zero"
  /\ \E r \in {parseStringTable(PoolInputs[pin].a, PoolInputs[pin].N)} :
       pool' = [pool EXCEPT !.state = IF r.err = Nil THEN "accepted"
                                      ELSE "rejected",
                            !.st = r.st, !.cache = {}, !.seen = {},
                            !.declared = LE32(PoolInputs[pin].a, 0)]
  /\ pget' = NoPget
  /\ UNCHANGED <<zipVars, apkVars, pureVars, xmlVars, flateVars, pin, decVars>>

\* get(idx) on the stringTable, which no caller keeps after a failed
\* parseStringTable
PoolGet ==
  \E idx \in PoolIndices :
    /\ pool.state # "rejected"
    /\ \E g \in {CachedGet(pool.st, pool.cache, idx)} :
         /\ pget' = [done |-> TRUE, idx |-> idx, r |-> g.r, panic |-> g.panic,
                     repeated |-> \E e \in pool.seen : e[1] = idx,
                     first |-> IF \E e \in pool.seen : e[1] = idx
                               THEN (CHOOSE e \in pool.seen : e[1] = idx)[2]
                               ELSE g.r]
         /\ pool' = [pool EXCEPT !.cache = g.cache,
                                 !.seen = IF \E e \in pool.seen : e[1] = idx
                                          THEN @ ELSE @ \cup {<<idx, g.r>>}]
    /\ UNCHANGED <<zipVars, apkVars, pureVars, xmlVars, flateVars, pin, decVars>>

InitPool ==
  /\ apk = 1
  /\ zr = OpenZipReader(Archives[apk], FALSE).zr
  /\ opened = {}
  /\ exhausted = {}
  /\ ret = NoRet
  /\ parser = FALSE
  /\ resources = NoResources
  /\ sink = <<>>
  /\ pret = NoPret
  /\ xin = <<>>
  /\ xout = NoXout
  /\ FlateInit
  /\ pin \in 1..Len(PoolInputs)
  /\ pool = ZeroPool
  /\ pget = NoPget
  /\ DecodeIdle

NextPool == PoolParse \/ PoolGet

\* A string pool, parsed from its chunk or not, and the calls of get on it
SpecPool == InitPool /\ [][NextPool]_vars

\* The number of strings of the stringTable
NumStrings == U32(Len(pool.st.stringOffsets) \div 4)

GetBelowCount == pget.idx # MaxUint32 /\ U32Lt(pget.idx, NumStrings)

GetEmpty == pget.r = [err |-> Nil, str |-> <<>>]

\* get returned the string the pool was written from at idx
GetDecoded ==
  /\ pget.r.err = Nil
  /\ pget.r.str = PoolInputs[pin].strs[U32Val(pget.idx) + 1]

\* What get does outside the range of the pool, and when called again
GetOutsideAndAgain ==
  /\ ~pget.panic
  /\ pget.idx = MaxUint32 => GetEmpty
  /\ (pget.idx # MaxUint32 /\ ~U32Lt(pget.idx, NumStrings))
       => (pget.r.err # Nil /\ pget.r.str = <<>>)
  /\ pget.repeated => pget.r = pget.first

GetOfAccepted == pget.done /\ pool.state = "accepted"

GetBelowDeclared ==
  pget.idx # MaxUint32 /\ U32Lt(pget.idx, pool.declared)

\* C13: for every string pool that parseStringTable accepted and every index
\* below the stringCount the pool declares, get returns without error.
C13_GetBelowStringCountSucceeds ==
  (GetOfAccepted /\ GetBelowDeclared) => pget.r.err = Nil

\* C13, as amended: parseStringTable accepts a pool without looking at its
\* offsets and strings, and keeps fewer offsets than the declared stringCount
\* when stringOffset leaves no room for all; get returns without error for the
\* indices below the declared stringCount whose offset was kept and whose
\* string lies within the data, and an error for the other ones.
C13_GetOfWholeStringSucceeds ==
  (GetOfAccepted /\ GetBelowDeclared)
    => /\ ~pget.panic
       /\ pget.r.err = Nil
            <=> (GetBelowCount /\ U32Val(pget.idx) \in PoolInputs[pin].good)

\* A get below the declared stringCount of a pool that kept fewer offsets
C13_Witness ==
  /\ GetOfAccepted /\ GetBelowDeclared /\ GetBelowCount
  /\ U32Lt(NumStrings, pool.declared)
  /\ pget.r.err = Nil /\ pget.r.str = StrBC

\* ------------------------------------------------ ParseXml, chunk by chunk

\* ParseXml returns err
DecodeReturn(err, x, flushed) ==
  [dec EXCEPT !.pc = "done", !.err = err, !.x = x, !.flushed = flushed]

\* ParseXml up to its loop: the top-level header and the plain-text check
DecodeBegin ==
  /\ dec.pc = "start"
  /\ \E h \in {parseChunkHeader(dec.b)} :
       dec' = IF h.err # Nil
                THEN DecodeReturn(h.err, [dec.x EXCEPT !.n = Len(dec.b)], FALSE)
              ELSE IF h.id % 256 = 60
                      /\ IsPlainText(Bytes16(h.id) \o Bytes16(h.headerLen)
                                       \o Bytes32(h.len))
                THEN DecodeReturn(ErrPlainTextManifest,
                                  [dec.x EXCEPT !.n = chunkHeaderSize], FALSE)
              ELSE [dec EXCEPT !.pc = "loop",
                               !.b = Drop(dec.b, chunkHeaderSize),
                               !.totalLen = U32Sub(h.len, U32(chunkHeaderSize)),
                               !.x = [dec.x EXCEPT !.n = chunkHeaderSize]]
  /\ UNCHANGED <<zipVars, apkVars, pureVars, xmlVars, flateVars, poolVars, doc,
                 chase>>

\* An error of a chunk that does not tell the chunk's id
ChunkErrNoId(id, cause) == Err("Chunk", 0, cause)

\* fmt.Errorf("Chunk: 0x%08x: %s", id, err.Error())
ChunkErr(id, cause) == Err("Chunk", id, cause)

\* A test that takes every chunk for fully read
FullyReadAlways(N, r) == TRUE

\* lm.N == 0 after the sub-parser has read r.n bytes of the N of its reader
FullyRead(N, r) == N - r.n = 0

\* One round of the loop once the chunk's header h is read and the switch on
\* its id has given r: N was the limit of the chunk's reader
DecodeRound(h, N, r) ==
  LET round == [id |-> h.id, len |-> h.len, N |-> N, n |-> r.n, err |-> r.err,
                at |-> dec.x.n, toks |-> Len(dec.x.toks),
                ids |-> Len(dec.x.resourceIds)]
      read == IF r.err # Nil THEN 0 ELSE r.n
      x == [r.x EXCEPT !.n = @ + chunkHeaderSize + read]
      counted == [dec EXCEPT !.rounds = @ + 1, !.last = round,
                             !.parsed = IF r.err = Nil THEN @ + 1 ELSE @]
  IN  IF r.err # Nil
        THEN [counted EXCEPT !.pc = "done", !.x = x, !.flushed = TRUE,
                             !.err = ChunkErr(h.id, r.err.kind)]
      ELSE IF ~FullyRead(N, r)
        THEN [counted EXCEPT !.pc = "done", !.x = x, !.flushed = TRUE,
                             !.err = Err("Chunk", h.id, "was not fully read")]
      ELSE [counted EXCEPT !.x = x, !.i = U32Add(dec.i, h.len),
                           !.b = Drop(dec.b, chunkHeaderSize + r.n)]

\* One round of ParseXml's loop
DecodeChunk ==
  /\ dec.pc = "loop"
  /\ U32Lt(dec.i, dec.totalLen)
  /\ \E h \in {parseChunkHeader(dec.b)} :
       IF h.err # Nil
         THEN dec' = DecodeReturn(Err("Error parsing header", 0, h.err.kind),
                                  [dec.x EXCEPT !.n = @ + Len(dec.b)], TRUE)
       ELSE \E N \in {I64Minus(h.len, 2 * 4)} :
              \E r \in {ParseChunk(dec.x, h.id,
                                   Take(Drop(dec.b, chunkHeaderSize), N), N)} :
                dec' = DecodeRound(h, N, r)
  /\ UNCHANGED <<zipVars, apkVars, pureVars, xmlVars, flateVars, poolVars, doc,
                 chase>>

\* The end of the loop: return x.encoder.Flush()
DecodeEnd ==
  /\ dec.pc = "loop"
  /\ ~U32Lt(dec.i, dec.totalLen)
  /\ dec' = DecodeReturn(Nil, dec.x, TRUE)
  /\ UNCHANGED <<zipVars, apkVars, pureVars, xmlVars, flateVars, poolVars, doc,
                 chase>>

InitDecode ==
  /\ apk = 1
  /\ zr = OpenZipReader(Archives[apk], FALSE).zr
  /\ opened = {}
  /\ exhausted = {}
  /\ ret = NoRet
  /\ parser = FALSE
  /\ resources \in {NoResources, DocResources}
  /\ sink = <<>>
  /\ pret = NoPret
  /\ xin = <<>>
  /\ xout = NoXout
  /\ FlateInit
  /\ pin = 1
  /\ pool = ZeroPool
  /\ pget = NoPget
  /\ doc \in 1..Len(Docs)
  /\ dec = NewDecode(DocBytes(Docs[doc]), resources)
  /\ chase = NewChase(<<>>, U32(0))
  /\ PureIdle

NextDecode == DecodeBegin \/ DecodeChunk \/ DecodeEnd

\* ParseXml on each of the documents, with and without a resource table
SpecDecode == InitDecode /\ [][NextDecode]_vars

\* ------------------------------------------------- ParseXml claims

\* The chunks of the document that the loop has processed without an error of
\* their sub-parser
ParsedChunks == SubSeq(Docs[doc].chunks, 1, dec.parsed)

\* TAG_START, TAG_END and TEXT chunks
IsTokenChunk(c) == c.k \in {"start", "end", "text"}

TokenChunks(cs) == SelectSeq(cs, IsTokenChunk)

\* The value of an attribute written as a decimal integer or as a string
WrittenValue(at, v) ==
  IF at.type = AttrTypeIntDec THEN v = <<48 + U32Val(at.data)>>
  ELSE IF at.type = AttrTypeString THEN v = DocStr(at.raw)
  ELSE TRUE

\* tok is the token of the chunk c: its kind, its name as the pool holds it,
\* and one attribute for each attribute of the chunk, in the chunk's order
TokenOfChunk(c, tok) ==
  /\ tok.t = (IF c.k = "start" THEN "StartElement"
              ELSE IF c.k = "end" THEN "EndElement" ELSE "CharData")
  /\ tok.local = DocStr(c.name)
  /\ tok.space = DocStr(c.ns)
  /\ Len(tok.attr) = Len(c.attrs)
  /\ \A j \in 1..Len(c.attrs) : WrittenValue(c.attrs[j], tok.attr[j].value)

\* C14: at every point of ParseXml the tokens emitted are those of the
\* TAG_START, TAG_END and TEXT chunks processed so far, one for each, in the
\* order of the chunks, and none for a chunk of another kind; the attributes
\* of a StartElement are those of its chunk in the order they were read.
C14_OneTokenPerChunkInOrder ==
  /\ Len(dec.x.toks) = Len(TokenChunks(ParsedChunks))
  /\ \A i \in 1..Len(dec.x.toks) :
       TokenOfChunk(TokenChunks(ParsedChunks)[i], dec.x.toks[i])

\* The manifest document is decoded: nine chunks, five tokens, six attributes
\* on the first
C14_Witness ==
  /\ doc = 1 /\ dec.pc = "done" /\ dec.err = Nil
  /\ dec.parsed = 9 /\ Len(dec.x.toks) = 5
  /\ Len(dec.x.toks[1].attr) = 6
  /\ dec.x.toks[1].attr[1].value = StrA
  /\ dec.x.toks[1].attr[6].value = <<53>>

\* The chunks inside the top-level chunk
Stream == SubSeq(Docs[doc].chunks, 1, Docs[doc].covered)

IsPool(c) == c.k = "pool"

\* Every TAG_START of cs is matched by a later, properly nested TAG_END with
\* equal namespace and name indices: open holds the indices of the elements
\* not yet ended, the innermost first
RECURSIVE Nested(_, _)
Nested(cs, open) ==
  IF cs = <<>> THEN open = <<>>
  ELSE IF cs[1].k = "start"
    THEN Nested(Tail(cs), <<<<cs[1].ns, cs[1].name>>>> \o open)
  ELSE IF cs[1].k = "end"
    THEN /\ open # <<>>
         /\ open[1] = <<cs[1].ns, cs[1].name>>
         /\ Nested(Tail(cs), Tail(open))
  ELSE Nested(Tail(cs), open)

ValidStream(cs) == Len(SelectSeq(cs, IsPool)) = 1 /\ Nested(cs, <<>>)

\* The StartElement and EndElement tokens of toks are balanced and each
\* EndElement carries the name of the StartElement it ends
RECURSIVE Balanced(_, _)
Balanced(toks, open) ==
  IF toks = <<>> THEN open = <<>>
  ELSE IF toks[1].t = "StartElement"
    THEN Balanced(Tail(toks), <<<<toks[1].space, toks[1].local>>>> \o open)
  ELSE IF toks[1].t = "EndElement"
    THEN /\ open # <<>>
         /\ open[1] = <<toks[1].space, toks[1].local>>
         /\ Balanced(Tail(toks), Tail(open))
  ELSE Balanced(Tail(toks), open)

Unresolved(at) ==
  \/ resources = NoResources
  \/ ResourceString(resources, at.data).err
  \/ ResourceString(resources, at.data).str = <<>>

\* The Reference attributes of the chunk c are emitted in tok as C16 says
PlaceholdersOfChunk(c, tok) ==
  \A j \in 1..Len(c.attrs) :
    c.attrs[j].type = AttrTypeReference /\ Unresolved(c.attrs[j])
      => tok.attr[j].value = <<64>> \o FormatHex(c.attrs[j].data)

\* C16: a Reference attribute is emitted with the value "@" and the hex of
\* its data when no resource table is supplied, when the lookup returns an
\* error and when the resolved value formats to the empty string, and
\* ParseXml does not fail on the document of Reference attributes.
C16_UnresolvedReferenceIsPlaceholder ==
  /\ \A i \in 1..Len(dec.x.toks) :
       PlaceholdersOfChunk(TokenChunks(ParsedChunks)[i], dec.x.toks[i])
  /\ doc = 2 => dec.err = Nil

\* The name the static table gives for the resource id at index k of the
\* chunk of resource ids, or nothing; k is -1 for 0xFFFFFFFF
ByResourceId(k) ==
  IF k >= 0 /\ k < Len(dec.x.resourceIds)
    THEN getAttributteName(dec.x.resourceIds[k + 1])
  ELSE <<>>

\* What the string pool gives for the index k
FromPool(k) ==
  StringTableGet(dec.x.strings, IF k = -1 THEN MaxUint32 ELSE U32(k))

IsManifest(c) == DocStr(c.name) = StrManifest

\* The attributes of tok are named as C18 says for those of the chunk c
NamedByIdOrPool(c, tok) ==
  \A j \in 1..Len(c.attrs) :
    IF ByResourceId(c.attrs[j].name) # <<>>
      THEN tok.attr[j].local = ByResourceId(c.attrs[j].name)
    ELSE /\ FromPool(c.attrs[j].name).err = Nil
         /\ tok.attr[j].local = FromPool(c.attrs[j].name).str

\* The chunk c has an attribute that neither the table nor the pool names
Unnamed(c) ==
  \E j \in 1..Len(c.attrs) :
    /\ ByResourceId(c.attrs[j].name) = <<>>
    /\ FromPool(c.attrs[j].name).err # Nil

\* C18: on an element not named manifest, an attribute whose index is below
\* the number of resource ids and whose id the static table names is emitted
\* under that name, whatever the string pool holds at the index; an
\* attribute the table does not name is emitted under the string the pool
\* holds at the index, and when the pool holds none there parseTagStart
\* fails with "error decoding attrNameIdx".
C18_NameByResourceIdThenByPool ==
  /\ \A i \in 1..Len(dec.x.toks) :
       TokenChunks(ParsedChunks)[i].k = "start"
         /\ ~IsManifest(TokenChunks(ParsedChunks)[i])
         => NamedByIdOrPool(TokenChunks(ParsedChunks)[i], dec.x.toks[i])
  /\ dec.pc = "done" /\ dec.rounds > dec.parsed
       /\ Docs[doc].chunks[dec.rounds].k = "start"
       /\ ~IsManifest(Docs[doc].chunks[dec.rounds])
       /\ Unnamed(Docs[doc].chunks[dec.rounds])
       => dec.err = Err("Chunk", chunkXmlTagStart, "error decoding attrNameIdx")

\* Element a is decoded with attributes the table names where the pool holds
\* a, the empty string, no string and package, and with one the pool names
C18_Witness ==
  /\ doc = 3 /\ dec.pc = "done" /\ dec.err = Nil
  /\ Len(dec.x.toks[1].attr) = 8
  /\ \A j \in {1, 2, 3} : dec.x.toks[1].attr[j].local = <<110, 97, 109, 101>>
  /\ FromPool(0).str = StrA /\ FromPool(7).str = <<>>
  /\ FromPool(8).err # Nil
  /\ FromPool(3).str = StrPackage /\ dec.x.toks[1].attr[8].local = StrIcon
  /\ ByResourceId(2) = <<>> /\ dec.x.toks[1].attr[4].local = StrManifest

\* The attributes of tok, the token of the manifest element's chunk c, are
\* named and put in a namespace as C19 says
ManifestAttrs(c, tok) ==
  \A j \in 1..Len(c.attrs) :
    IF /\ FromPool(c.attrs[j].name).err = Nil
       /\ \/ FromPool(c.attrs[j].name).str = StrPackage
          \/ HasPrefix(FromPool(c.attrs[j].name).str, StrPlatformBuildVersion)
      THEN /\ tok.attr[j].local = FromPool(c.attrs[j].name).str
           /\ tok.attr[j].space = FromPool(c.attrs[j].ns).str
    ELSE ByResourceId(c.attrs[j].name) # <<>>
           => /\ tok.attr[j].local = ByResourceId(c.attrs[j].name)
              /\ tok.attr[j].space =
                   IF FromPool(c.attrs[j].ns).str = <<>> THEN StrAndroidNs
                   ELSE FromPool(c.attrs[j].ns).str

\* The attributes of tok that the table names are in the Android namespace
\* when the chunk c gives them none
OtherAttrs(c, tok) ==
  \A j \in 1..Len(c.attrs) :
    /\ ByResourceId(c.attrs[j].name) # <<>>
    /\ FromPool(c.attrs[j].ns).str = <<>>
    => tok.attr[j].space = StrAndroidNs

\* C19: on the manifest element an attribute that the string pool names
\* package or platformBuildVersion* is emitted under that name and in the
\* namespace read, also when the static table names its resource id; every
\* other attribute named by its resource id that has no namespace is emitted
\* in http://schemas.android.com/apk/res/android.
C19_ManifestKeepsPackageAndBuildVersion ==
  \A i \in 1..Len(dec.x.toks) :
    TokenChunks(ParsedChunks)[i].k = "start"
      => IF IsManifest(TokenChunks(ParsedChunks)[i])
           THEN ManifestAttrs(TokenChunks(ParsedChunks)[i], dec.x.toks[i])
         ELSE OtherAttrs(TokenChunks(ParsedChunks)[i], dec.x.toks[i])

\* The manifest element is decoded: package and platformBuildVersionCode,
\* whose ids the table names icon and label, keep their names and no
\* namespace, package in namespace b keeps b, name and versionCode are in
\* the Android namespace
C19_Witness ==
  /\ doc = 1 /\ dec.pc = "done" /\ dec.err = Nil
  /\ dec.x.toks[1].local = StrManifest
  /\ ByResourceId(3) = StrIcon
  /\ dec.x.toks[1].attr[1].local = StrPackage
  /\ dec.x.toks[1].attr[1].space = <<>>
  /\ HasPrefix(dec.x.toks[1].attr[2].local, StrPlatformBuildVersion)
  /\ dec.x.toks[1].attr[2].space = <<>>
  /\ dec.x.toks[1].attr[3].space = StrAndroidNs
  /\ dec.x.toks[1].attr[4].space = StrAndroidNs
  /\ dec.x.toks[1].attr[5].local = StrPackage
  /\ dec.x.toks[1].attr[5].space = <<98>>

\* The bytes of the first k chunks of the document
ChunkBytesUpTo(k) == Len(ChunksBytes(SubSeq(Docs[doc].chunks, 1, k)))

ResourceIdsRound == dec.rounds > 0 /\ dec.last.id = chunkResourceIds

\* The resource ids that the last chunk added to the side table
IdsRead == Len(dec.x.resourceIds) - dec.last.ids

\* C23 as stated: a RESOURCE_IDS chunk whose size is not a multiple of 4
\* fails; of another one totalLen/4 resource ids are read, totalLen being the
\* length in the chunk's header.
C23_TotalLenOver4IdsRead ==
  ResourceIdsRound
    => IF U32Val(dec.last.len) % 4 # 0 THEN dec.last.err # Nil
       ELSE dec.last.err = Nil /\ IdsRead = U32Val(dec.last.len) \div 4

\* C23, amended: a RESOURCE_IDS chunk whose length is not a multiple of 4 or
\* less than the 8 bytes of its header fails; of another one
\* (totalLen - 8)/4 resource ids are read, those after the chunk's header,
\* and added to the side table.
C23_BodyLenOver4IdsRead ==
  ResourceIdsRound
    => IF U32Val(dec.last.len) % 4 # 0 \/ U32Val(dec.last.len) < 8
         THEN dec.last.err # Nil /\ IdsRead = 0
       ELSE /\ dec.last.err = Nil
            /\ IdsRead = (U32Val(dec.last.len) - 8) \div 4
            /\ dec.x.n = dec.last.at + 8 + 4 * IdsRead

\* A second chunk of 44 bytes added nine resource ids to the one of the
\* first chunk
C23_Witness ==
  /\ ResourceIdsRound /\ doc = 15 /\ dec.rounds = 3
  /\ dec.last.len = U32(44) /\ dec.last.err = Nil
  /\ dec.last.ids = 1 /\ IdsRead = 9
  /\ dec.x.resourceIds = <<<<257, 1>>>> \o DocResIds

PoolFree ==
  {d \in 1..Len(Docs) :
     \A k \in DOMAIN Docs[d].chunks : Docs[d].chunks[k].k # "pool"}

InitDecodeFair == InitDecode /\ doc \in PoolFree

\* ParseXml on the documents without a string pool, its steps taken as long
\* as there is one to take
SpecDecodeFair ==
  InitDecodeFair /\ [][NextDecode]_vars /\ WF_vars(NextDecode)

\* A step that is one iteration of the chunk loop
ChunkRound == dec.pc = "loop" /\ dec'.rounds = dec.rounds + 1

\* The last iteration read the header of a chunk that declares a total
\* length below 8
ShortChunk ==
  dec.rounds > 0 /\ U32Lt(dec.last.len, U32(chunkHeaderSize))

TopLen == Docs[doc].top

\* ParseXml has returned success after the top header alone: no chunk header
\* was asked for and no token was written
TreatedAsEmpty ==
  /\ dec.pc = "done" /\ dec.err = Nil
  /\ dec.rounds = 0 /\ dec.x.n = chunkHeaderSize /\ dec.x.toks = <<>>

\* C29: ParseXml treats the document as empty exactly when the totalLen of
\* the top header is 8; for a totalLen below 8 the subtraction of 8 wraps
\* modulo 2^32 and the loop goes on reading chunk headers.
C29_EmptyExactlyWhenTotalLenIs8 ==
  /\ dec.pc = "done" => (TreatedAsEmpty <=> TopLen = chunkHeaderSize)
  /\ (dec.pc = "loop" /\ TopLen < chunkHeaderSize)
       => /\ dec.totalLen = <<Half - 1, Half - chunkHeaderSize + TopLen>>
          /\ U32Lt(dec.i, dec.totalLen)
          /\ ~ENABLED DecodeEnd
  /\ (dec.pc = "done" /\ TopLen < chunkHeaderSize)
       => dec.err.kind \in {"Error parsing header", "Chunk"}

\* A top header of total length 8 with an element after it: ParseXml has
\* returned success and left the element unread
C29_Witness ==
  /\ TreatedAsEmpty /\ TopLen = chunkHeaderSize
  /\ Len(Docs[doc].chunks) = 3 /\ Len(dec.b) = Len(ChunksBytes(Docs[doc].chunks))

\* A top header of total length 0: ParseXml has read the two chunks after it
\* and asked for the header of a third
WrappedAndReadOn ==
  /\ dec.pc = "done" /\ TopLen = 0 /\ dec.rounds = 2
  /\ Len(dec.x.toks) = 2 /\ dec.err.kind = "Error parsing header"

\* ------------------------------ the reference chase of manifestParseInfo

\* The resource ids of the tables: 0x7f020001 and so on
MaxChaseId == 3

ChaseId(n) == <<32514, n>>

\* The entries a table holds for an id: none, a string, the empty string or
\* a reference to an id, one of them the id after the table's last
NoEntry == [present |-> FALSE, dataType |-> 0, data |-> U32(0), str |-> <<>>]

StringEntry(str) ==
  [present |-> TRUE, dataType |-> AttrTypeString, data |-> U32(0),
   str |-> str]

ReferenceEntry(n) ==
  [present |-> TRUE, dataType |-> AttrTypeReference, data |-> ChaseId(n),
   str |-> <<>>]

ChaseEntries ==
  {NoEntry, StringEntry(StrA), StringEntry(<<>>)}
    \cup {ReferenceEntry(n) : n \in 1..MaxChaseId + 1}

\* A chain of references longer than the chase follows: seven entries, the
\* last one a string
LongChain ==
  [k \in 1..7 |-> IF k < 7 THEN ReferenceEntry(k + 1) ELSE StringEntry(StrA)]

\* The resource tables: entry k is that of ChaseId(k), in one configuration
ChaseTables == [1..MaxChaseId -> ChaseEntries] \cup {LongChain}

\* x.res.GetResourceEntryEx(id, cfg) on a table of one configuration, where
\* ConfigFirst and ConfigLast choose the same entry: [err, e]
GetResourceEntryEx(res, id) ==
  LET hits == {k \in 1..Len(res) : ChaseId(k) = id /\ res[k].present}
  IN  IF hits = {} THEN [err |-> TRUE, e |-> NoEntry]
      ELSE [err |-> FALSE, e |-> res[CHOOSE k \in hits : TRUE]]

\* e.value.String(): the string of a string value; for a value that is a
\* reference either "@" and the hex of its data or nothing
ValueStrings(e) ==
  IF e.dataType = AttrTypeReference THEN {<<>>, <<64>> \o FormatHex(e.data)}
  ELSE {e.str}

\* A loop condition that lets the chase follow one more reference
MoreHopsSix(i) == i < 6

\* i < 5 of the chase's loop
MoreHops(i) == i < 5

\* if x.res != nil { e, err := x.res.GetResourceEntryEx(data, cfg)
ChaseFirst ==
  /\ chase.pc = "start"
  /\ \E r \in {GetResourceEntryEx(chase.res, chase.data)} :
       chase' = IF chase.res = <<>> THEN [chase EXCEPT !.pc = "fallback"]
                ELSE IF r.err
                  THEN [chase EXCEPT !.pc = "fallback", !.lookups = 1]
                ELSE [chase EXCEPT !.pc = "loop", !.e = r.e, !.lookups = 1]
  /\ UNCHANGED <<zipVars, apkVars, pureVars, xmlVars, flateVars, poolVars, doc, dec>>

\* One round of for i := 0; e.value.dataType == attrTypeReference && i < 5
ChaseHop ==
  /\ chase.pc = "loop"
  /\ chase.e.dataType = AttrTypeReference /\ MoreHops(chase.i)
  /\ \E r \in {GetResourceEntryEx(chase.res, chase.e.data)} :
       chase' = IF r.err
                  THEN [chase EXCEPT !.pc = "format", !.lookups = @ + 1]
                ELSE [chase EXCEPT !.e = r.e, !.i = @ + 1, !.lookups = @ + 1]
  /\ UNCHANGED <<zipVars, apkVars, pureVars, xmlVars, flateVars, poolVars, doc, dec>>

\* attr.Value = e.value.String(), after the loop or its break
ChaseFormat ==
  /\ \/ chase.pc = "format"
     \/ /\ chase.pc = "loop"
        /\ ~(chase.e.dataType = AttrTypeReference /\ MoreHops(chase.i))
  /\ \E str \in ValueStrings(chase.e) :
       chase' = [chase EXCEPT !.pc = "fallback", !.value = str]
  /\ UNCHANGED <<zipVars, apkVars, pureVars, xmlVars, flateVars, poolVars, doc, dec>>

\* if attr.Value == "" { attr.Value = fmt.Sprintf("@%x", data) }
ChaseFallback ==
  /\ chase.pc = "fallback"
  /\ chase' = [chase EXCEPT !.pc = "done",
                            !.value = IF @ = <<>>
                                        THEN <<64>> \o FormatHex(chase.data)
                                      ELSE @]
  /\ UNCHANGED <<zipVars, apkVars, pureVars, xmlVars, flateVars, poolVars, doc, dec>>

InitChase ==
  /\ apk = 1
  /\ zr = OpenZipReader(Archives[apk], FALSE).zr
  /\ opened = {}
  /\ exhausted = {}
  /\ ret = NoRet
  /\ parser = FALSE
  /\ resources = NoResources
  /\ sink = <<>>
  /\ pret = NoPret
  /\ xin = <<>>
  /\ xout = NoXout
  /\ FlateInit
  /\ pin = 1
  /\ pool = ZeroPool
  /\ pget = NoPget
  /\ doc = 1
  /\ dec = NewDecode(<<>>, NoResources)
  /\ \E res \in ChaseTables \cup {<<>>} :
       \E n \in 1..MaxChaseId + 1 : chase = NewChase(res, ChaseId(n))
  /\ PureIdle

NextChase == ChaseFirst \/ ChaseHop \/ ChaseFormat \/ ChaseFallback

\* The resolution of a Reference attribute against each of the tables; it
\* goes on until it is done
SpecChase == InitChase /\ [][NextChase]_vars /\ WF_vars(NextChase)

\* The ids the references lead through, from id, in at most n lookups
RECURSIVE Chain(_, _, _)
Chain(res, id, n) ==
  IF n = 0 \/ GetResourceEntryEx(res, id).err THEN {}
  ELSE IF GetResourceEntryEx(res, id).e.dataType # AttrTypeReference
    THEN {id}
  ELSE {id} \cup Chain(res, GetResourceEntryEx(res, id).e.data, n - 1)

\* The references from id never end: they form a cycle
RECURSIVE Cyclic(_, _, _)
Cyclic(res, id, n) ==
  /\ ~GetResourceEntryEx(res, id).err
  /\ GetResourceEntryEx(res, id).e.dataType = AttrTypeReference
  /\ n = 0 \/ Cyclic(res, GetResourceEntryEx(res, id).e.data, n - 1)

ChaseCycle == Cyclic(chase.res, chase.data, Len(chase.res))

\* C17: the resolution of a Reference attribute makes at most 5 lookups after
\* the first one and comes to its end, also when the references form a
\* cycle; for a cycle the value emitted is "@" and the hex of a resource id,
\* that of the attribute or of a reference of the cycle.
C17_ChaseIsBoundedAndEndsInPlaceholder ==
  /\ [](/\ chase.i <= 5 /\ chase.lookups <= 1 + 5
        /\ chase.pc = "done" /\ ChaseCycle
             => \E id \in Chain(chase.res, chase.data, 6) :
                  chase.value = <<64>> \o FormatHex(id))
  /\ <>(chase.pc = "done")

\* A cycle of two references, entered from a third, was followed for five
\* lookups after the first: the value names the reference the chase ended at
C17_Witness ==
  /\ chase.pc = "done" /\ ChaseCycle
  /\ chase.res[1] = ReferenceEntry(2) /\ chase.res[2] = ReferenceEntry(1)
  /\ chase.res[3] = ReferenceEntry(1)
  /\ chase.data = ChaseId(3)
  /\ chase.i = 5 /\ chase.lookups = 6
  /\ chase.value = <<64>> \o FormatHex(ChaseId(2))

\* ------------------------------------ parseStringTable on pool headers

\* parseStringTable on the pool of the header
HeaderParse ==
  /\ ~hdr.done
  /\ \E r \in {parseStringTable(HeaderBody(hdr.cnt, hdr.stringOffset),
                                Len(HeaderBody(hdr.cnt, hdr.stringOffset)))} :
       hdr' = [hdr EXCEPT !.done = TRUE, !.err = r.err,
                          !.kept = Len(r.st.stringOffsets) \div 4]
  /\ UNCHANGED <<zipVars, apkVars, xmlVars, flateVars, poolVars, decVars, scan, gs>>

InitHeader ==
  /\ apk = 1
  /\ zr = OpenZipReader(Archives[apk], FALSE).zr
  /\ opened = {}
  /\ exhausted = {}
  /\ ret = NoRet
  /\ parser = FALSE
  /\ resources = NoResources
  /\ sink = <<>>
  /\ pret = NoPret
  /\ xin = <<>>
  /\ xout = NoXout
  /\ FlateInit
  /\ pin = 1
  /\ pool = ZeroPool
  /\ pget = NoPget
  /\ doc = 1
  /\ dec = NewDecode(<<>>, NoResources)
  /\ chase = NewChase(<<>>, U32(0))
  /\ \E cnt \in HeaderCounts, stringOffset \in HeaderOffsets :
       hdr = NewHeader(cnt, stringOffset)
  /\ scan = NewScan(<<>>)
  /\ gs = NewGetString(<<>>, U32(0))

NextHeader == HeaderParse

\* parseStringTable on pools of each of the headers
SpecHeader == InitHeader /\ [][NextHeader]_vars

\* C21: parseStringTable fails when the stringCnt the header declares is
\* larger than 2,097,152, and its limit on the count rejects no pool that
\* declares 2,097,152 strings or fewer.
C21_CountLimitIsAbove2097152 ==
  hdr.done
    => /\ hdr.cnt > 2097152 => hdr.err # Nil
       /\ hdr.cnt <= 2097152 => hdr.err.kind # "Too many strings"

\* stringsDataOffset - 28 - 4 * stringCount of the header
HeaderRemainder == hdr.stringOffset - 28 - 4 * hdr.cnt

\* parseStringTable went on after the test of the remainder, with the count
\* reduced by (-remainder)/4
ReducedAndWentOn ==
  /\ hdr.err.kind # "Wrong string offset"
  /\ hdr.err = Nil => hdr.kept = hdr.cnt - (0 - HeaderRemainder) \div 4

\* The header passes the tests before that of the remainder, and its
\* remainder is negative
NegativeRemainder ==
  hdr.done /\ hdr.cnt < 2097152 /\ HeaderRemainder < 0

\* C22 as stated: when the remainder is negative, parseStringTable reduces
\* the count and goes on if the remainder is divisible by 4, and fails
\* otherwise and only otherwise.
C22_DivisibleRemainderReducesCount ==
  NegativeRemainder
    => IF HeaderRemainder % 4 = 0 THEN ReducedAndWentOn
       ELSE hdr.err.kind = "Wrong string offset"

\* C22, amended: when the remainder is negative, parseStringTable reduces the
\* count and goes on if the remainder is divisible by 4 and (-remainder)/4 is
\* less than the count, and fails otherwise: also for a divisible remainder
\* whose reduction would leave no string.
C22_DivisibleRemainderBelowCountReducesCount ==
  NegativeRemainder
    => IF HeaderRemainder % 4 = 0 /\ (0 - HeaderRemainder) \div 4 < hdr.cnt
         THEN ReducedAndWentOn
       ELSE hdr.err.kind = "Wrong string offset"

\* A header that declares three strings and room for one offset: the pool is
\* accepted with one string
C22_Witness ==
  /\ NegativeRemainder /\ hdr.cnt = 3 /\ hdr.stringOffset = 32
  /\ HeaderRemainder = 0 - 8
  /\ hdr.err = Nil /\ hdr.kept = 1

\* ------------------------------ the fallback scan of OpenZipReader

\* OpenZipReader on a file archive/zip cannot read: the loop over
\* findNextFileHeader from the start of the file
ScanRun ==
  /\ ~scan.done
  /\ \E r \in {ScanLocalHeaders(ScanBytes(scan.file), 0, EmptyFiles, <<>>)} :
       scan' = [scan EXCEPT !.done = TRUE, !.err = r.err, !.File = r.File,
                            !.FilesOrdered = r.FilesOrdered]
  /\ UNCHANGED <<zipVars, apkVars, xmlVars, flateVars, poolVars, decVars, hdr, gs>>

InitScan ==
  /\ apk = 1
  /\ zr = OpenZipReader(Archives[apk], FALSE).zr
  /\ opened = {}
  /\ exhausted = {}
  /\ ret = NoRet
  /\ parser = FALSE
  /\ resources = NoResources
  /\ sink = <<>>
  /\ pret = NoPret
  /\ xin = <<>>
  /\ xout = NoXout
  /\ FlateInit
  /\ pin = 1
  /\ pool = ZeroPool
  /\ pget = NoPget
  /\ doc = 1
  /\ dec = NewDecode(<<>>, NoResources)
  /\ chase = NewChase(<<>>, U32(0))
  /\ hdr = NewHeader(0, 0)
  /\ \E file \in ScanFiles : scan = NewScan(file)
  /\ gs = NewGetString(<<>>, U32(0))

NextScan == ScanRun

\* The fallback scan on the files made of at most MaxPieces pieces
SpecScan == InitScan /\ [][NextScan]_vars

\* The offsets at which the bytes 50 4B 03 04 occur in b
Occurrences(b) ==
  {p \in 0..(Len(b) - Len(toCmp)) : SubSeq(b, p + 1, p + Len(toCmp)) = toCmp}

\* The sub-entries the scan recorded, each with the name it is filed under
Recorded ==
  UNION {{<<n, scan.File[n].entries[k]>> : k \in DOMAIN scan.File[n].entries} :
           n \in DOMAIN scan.File}

\* The number of sub-entries the scan recorded
RECURSIVE CountSubEntries(_)
CountSubEntries(names) ==
  IF names = {} THEN 0
  ELSE LET n == CHOOSE m \in names : TRUE
       IN  Len(scan.File[n].entries) + CountSubEntries(names \ {n})

\* The sub-entry is that of the header at its hdr: the method read at hdr + 8
\* and the offset hdr + 30 + nameLen + extraLen
SubEntryOfHeader(b, sub) ==
  /\ sub.hdr + 30 <= Len(b)
  /\ sub.method = LE16(b, sub.hdr + 8)
  /\ sub.offset = sub.hdr + 30 + LE16(b, sub.hdr + 26) + LE16(b, sub.hdr + 28)

\* C25: the fallback scan of OpenZipReader records one sub-entry for every
\* occurrence of 50 4B 03 04 in the file, with the method read at match + 8
\* and the payload offset match + 30 + nameLen + extraLen.
C25_OneSubEntryPerSignature ==
  scan.done
    => /\ {e[2].hdr : e \in Recorded} = Occurrences(ScanBytes(scan.file))
       /\ CountSubEntries(DOMAIN scan.File)
            = Cardinality(Occurrences(ScanBytes(scan.file)))
       /\ \A e \in Recorded : SubEntryOfHeader(ScanBytes(scan.file), e[2])

\* ------------------------------ getString of the binxml parser

\* One call of x.getString(idx)
GetStringCall ==
  /\ ~gs.done
  /\ \E r \in {getString(gs.stringTable, gs.idx)} :
       gs' = [gs EXCEPT !.done = TRUE, !.str = r.str, !.err = r.err,
                        !.panic = r.panic]
  /\ UNCHANGED <<zipVars, apkVars, xmlVars, flateVars, poolVars, decVars, hdr,
                 scan>>

InitGetString ==
  /\ apk = 1
  /\ zr = OpenZipReader(Archives[apk], FALSE).zr
  /\ opened = {}
  /\ exhausted = {}
  /\ ret = NoRet
  /\ parser = FALSE
  /\ resources = NoResources
  /\ sink = <<>>
  /\ pret = NoPret
  /\ xin = <<>>
  /\ xout = NoXout
  /\ FlateInit
  /\ pin = 1
  /\ pool = ZeroPool
  /\ pget = NoPget
  /\ doc = 1
  /\ dec = NewDecode(<<>>, NoResources)
  /\ chase = NewChase(<<>>, U32(0))
  /\ hdr = NewHeader(0, 0)
  /\ scan = NewScan(<<>>)
  /\ \E stringTable \in GetStringTables, idx \in GetStringIndices :
       gs = NewGetString(stringTable, idx)

NextGetString == GetStringCall

\* getString on each of the tables with each of the indices
SpecGetString == InitGetString /\ [][NextGetString]_vars

\* C26: getString(idx) of the binxml parser returns the empty string for
\* 0xFFFFFFFF, and for every other idx that is not below len(stringTable)
\* it returns an error and does not panic.
C26_GetStringNeverPanics ==
  gs.done
    => /\ gs.idx = MaxUint32
            => gs.str = <<>> /\ gs.err = Nil /\ ~gs.panic
       /\ (gs.idx # MaxUint32 /\ ~U32Lt(gs.idx, U32(Len(gs.stringTable))))
            => gs.err # Nil /\ ~gs.panic

====
